---------------------------- MODULE Spec2Model ----------------------------
(***************************************************************************)
(* A model of the redactly.ai server: the hybrid PII detector              *)
(* (server/src/hybrid_detector.py), the PDF and raster redactors           *)
(* (server/src/ocr_redaction.py) and the batch pipeline                     *)
(* (server/src/redaction_service.py, server/app.py).                       *)
(*                                                                         *)
(* Strings are sequences of one-character strings, offsets are 0-based as  *)
(* in the Python source, and a confidence is the exact rational            *)
(* [num, den] of the float the source computes.                            *)
(***************************************************************************)
EXTENDS Integers, Sequences, FiniteSets, TLC

(***************************************************************************)
(* Characters and the str methods the source uses.                          *)
(***************************************************************************)
UpperSeq ==
  <<"A","B","C","D","E","F","G","H","I","J","K","L","M",
    "N","O","P","Q","R","S","T","U","V","W","X","Y","Z">>

LowerSeq ==
  <<"a","b","c","d","e","f","g","h","i","j","k","l","m",
    "n","o","p","q","r","s","t","u","v","w","x","y","z">>

UpperSet == {UpperSeq[i] : i \in 1..26}

LowerSet == {LowerSeq[i] : i \in 1..26}

DigitSet == {"0","1","2","3","4","5","6","7","8","9"}

\* what str.strip(), str.split() and the regex class \s treat as whitespace
Whitespace == {" ", "\n", "\t"}

\* the regex class \w
WordChars == UpperSet \cup LowerSet \cup DigitSet \cup {"_"}

ToLowerFn == [c \in UpperSet |-> LowerSeq[CHOOSE i \in 1..26 : UpperSeq[i] = c]]

ToUpperFn == [c \in LowerSet |-> UpperSeq[CHOOSE i \in 1..26 : LowerSeq[i] = c]]

LowerChar(c) == IF c \in UpperSet THEN ToLowerFn[c] ELSE c

UpperChar(c) == IF c \in LowerSet THEN ToUpperFn[c] ELSE c

\* str.lower()
Lower(s) == [i \in 1..Len(s) |-> LowerChar(s[i])]

\* str.upper()
Upper(s) == [i \in 1..Len(s) |-> UpperChar(s[i])]

Min(a, b) == IF a <= b THEN a ELSE b

Max(a, b) == IF a >= b THEN a ELSE b

SetMax(S) == CHOOSE x \in S : \A y \in S : y <= x

SetMin(S) == CHOOSE x \in S : \A y \in S : x <= y

\* the Python slice s[a:b] for 0 <= a: the end is clamped to len(s)
Slice(s, a, b) == SubSeq(s, a + 1, Min(b, Len(s)))

\* str.strip(): leading and trailing whitespace removed
Strip(s) ==
  LET Solid == {i \in 1..Len(s) : s[i] \notin Whitespace}
  IN  IF Solid = {} THEN <<>> ELSE SubSeq(s, SetMin(Solid), SetMax(Solid))

\* whether needle occurs in s at the 0-based offset p
OccursAt(s, needle, p) ==
  /\ p >= 0
  /\ p + Len(needle) <= Len(s)
  /\ \A k \in 1..Len(needle) : s[p + k] = needle[k]

\* str.find(needle, start): the lowest offset >= start of an occurrence, or -1
Find(s, needle, start) ==
  LET Hits == {p \in start..(Len(s) - Len(needle)) : OccursAt(s, needle, p)}
  IN  IF Hits = {} THEN -1 ELSE SetMin(Hits)

\* the Python test `needle in s`
Contains(s, needle) == Find(s, needle, 0) # -1

\* len(s.split()): the number of maximal runs of non-whitespace characters
WordCount(s) ==
  Cardinality({i \in 1..Len(s) :
                 /\ s[i] \notin Whitespace
                 /\ (i = 1 \/ s[i - 1] \in Whitespace)})

\* the concatenation of a sequence of sequences, in order
RECURSIVE Flatten(_)
Flatten(ss) == IF ss = <<>> THEN <<>> ELSE Head(ss) \o Flatten(Tail(ss))


(***************************************************************************)
(* hybrid_detector.py: configuration.                                      *)
(***************************************************************************)
DEFAULT_ENTITY_TYPES ==
  <<"PERSON", "EMAIL_ADDRESS", "PHONE_NUMBER", "CREDIT_CARD", "US_SSN",
    "US_PASSPORT", "LOCATION", "DATE_TIME", "IP_ADDRESS", "IBAN_CODE",
    "NRP", "MEDICAL_LICENSE", "URL">>

ENTITY_TYPE_LABELS ==
  [t \in {"PERSON", "EMAIL_ADDRESS", "PHONE_NUMBER", "CREDIT_CARD", "US_SSN",
          "US_PASSPORT", "LOCATION", "DATE_TIME", "IP_ADDRESS", "IBAN_CODE",
          "NRP", "MEDICAL_LICENSE", "URL", "AADHAAR_IN"} |->
     CASE t = "PERSON" -> "Names"
       [] t = "EMAIL_ADDRESS" -> "Email Addresses"
       [] t = "PHONE_NUMBER" -> "Phone Numbers"
       [] t = "CREDIT_CARD" -> "Credit Card Numbers"
       [] t = "US_SSN" -> "Social Security Numbers (US)"
       [] t = "US_PASSPORT" -> "Passport Numbers (US)"
       [] t = "LOCATION" -> "Locations/Addresses"
       [] t = "DATE_TIME" -> "Dates & Times"
       [] t = "IP_ADDRESS" -> "IP Addresses"
       [] t = "IBAN_CODE" -> "Bank Account Numbers (IBAN)"
       [] t = "NRP" -> "National IDs"
       [] t = "MEDICAL_LICENSE" -> "Medical License Numbers"
       [] t = "URL" -> "URLs/Web Addresses"
       [] t = "AADHAAR_IN" -> "Aadhaar Numbers (India)"]

DENY_LIST ==
  {
    <<"n","a","m","e">>,
    <<"s","t","u","d","e","n","t">>,
    <<"f","a","t","h","e","r">>,
    <<"m","o","t","h","e","r">>,
    <<"g","u","a","r","d","i","a","n">>,
    <<"a","a","d","h","a","a","r">>,
    <<"c","a","s","t","e">>,
    <<"c","a","t","e","g","o","r","y">>,
    <<"i","n","c","o","m","e">>,
    <<"b","o","a","r","d">>,
    <<"u","n","i","v","e","r","s","i","t","y">>,
    <<"c","o","l","l","e","g","e">>,
    <<"c","o","u","r","s","e">>,
    <<"s","e","a","t">>,
    <<"t","y","p","e">>,
    <<"q","u","o","t","a">>,
    <<"n","u","m","b","e","r">>,
    <<"i","d">>,
    <<"d","a","t","e">>,
    <<"y","e","a","r">>,
    <<"b","r","a","n","c","h">>,
    <<"d","i","s","c","i","p","l","i","n","e">>,
    <<"a","t","t","e","s","t","a","t","i","o","n">>,
    <<"s","u","b","m","i","t","t","e","d">>,
    <<"c","o","n","s","i","d","e","r","e","d">>,
    <<"e","l","i","g","i","b","l","e">>,
    <<"d","e","t","a","i","l","s">>,
    <<"s","t","a","t","u","s">>,
    <<"b","a","n","k">>,
    <<"b","r","a","n","c","h">>
  }

\* a confidence: the rational num/den
Score(n, d) == [num |-> n, den |-> d]

ScoreEq(a, b) == a.num * b.den = b.num * a.den

ScoreGt(a, b) == a.num * b.den > b.num * a.den

ScoreGe(a, b) == a.num * b.den >= b.num * a.den

\* DetectionResult
DetectionResult(t, ty, s, e, sc, mm) ==
  [text |-> t, entity_type |-> ty, start |-> s, end |-> e, score |-> sc,
   match_mode |-> mm]

\* the elements of a finite set of integers as an ascending sequence
RECURSIVE Ascending(_)
Ascending(S) ==
  IF S = {} THEN <<>> ELSE <<SetMin(S)>> \o Ascending(S \ {SetMin(S)})

(***************************************************************************)
(* HybridPIIDetector._exact_match                                          *)
(***************************************************************************)
\* ExactMatchKeyword searching the text as given, not lowercased
ExactMatchKeywordCaseSensitive(txt, keyword) ==
  IF Strip(keyword) = <<>>
  THEN <<>>
  ELSE LET keyword_lower == Strip(Lower(keyword))
           hits == Ascending({p \in 0..Len(txt) :
                                OccursAt(txt, keyword_lower, p)})
       IN  [k \in 1..Len(hits) |->
              DetectionResult(Slice(txt, hits[k], hits[k] + Len(keyword)),
                              "CUSTOM_KEYWORD", hits[k],
                              hits[k] + Len(keyword), Score(1, 1), "exact")]

\* the spans of one keyword: one per occurrence, found by find() restarted
\* one character after the previous hit
ExactMatchKeyword(txt, keyword) ==
  IF Strip(keyword) = <<>>
  THEN <<>>
  ELSE LET text_lower == Lower(txt)
           keyword_lower == Strip(Lower(keyword))
           hits == Ascending({p \in 0..Len(txt) :
                                OccursAt(text_lower, keyword_lower, p)})
       IN  [k \in 1..Len(hits) |->
              DetectionResult(Slice(txt, hits[k], hits[k] + Len(keyword)),
                              "CUSTOM_KEYWORD", hits[k],
                              hits[k] + Len(keyword), Score(1, 1), "exact")]

ExactMatch(txt, keywords) ==
  Flatten([k \in 1..Len(keywords) |-> ExactMatchKeyword(txt, keywords[k])])

(***************************************************************************)
(* rapidfuzz.fuzz.ratio and fuzz.partial_ratio                             *)
(***************************************************************************)
RowAt(row, j) == IF j = 0 THEN 0 ELSE row[j]

\* one row of the longest-common-subsequence table, left to right
RECURSIVE LcsRow(_, _, _, _, _)
LcsRow(prev, c, b, j, acc) ==
  IF j > Len(b)
  THEN acc
  ELSE LcsRow(prev, c, b, j + 1,
              Append(acc, IF c = b[j]
                          THEN RowAt(prev, j - 1) + 1
                          ELSE Max(RowAt(prev, j), RowAt(acc, j - 1))))

RECURSIVE LcsRows(_, _, _, _)
LcsRows(a, b, i, prev) ==
  IF i > Len(a)
  THEN RowAt(prev, Len(b))
  ELSE LcsRows(a, b, i + 1, LcsRow(prev, a[i], b, 1, <<>>))

\* the length of the longest common subsequence of a and b
LcsLen(a, b) == LcsRows(a, b, 1, [j \in 1..Len(b) |-> 0])

\* fuzz.ratio: 100 * (1 - indel_distance / (len(a) + len(b))), where the
\* indel distance is len(a) + len(b) - 2 * lcs; 100 for two empty strings
Ratio(a, b) ==
  IF Len(a) + Len(b) = 0
  THEN Score(100, 1)
  ELSE Score(200 * LcsLen(a, b), Len(a) + Len(b))

\* the windows of the longer string the shorter one is aligned with: the
\* proper prefixes shorter than n, every substring of length n, and the
\* proper suffixes shorter than n
Windows(long, n) ==
  {Slice(long, 0, i) : i \in 1..(n - 1)}
    \cup {Slice(long, i, i + n) : i \in 0..(Len(long) - n)}
    \cup {Slice(long, i, Len(long)) : i \in (Len(long) - n + 1)..(Len(long) - 1)}

\* the best fuzz.ratio of needle against a window of long
BestAlignment(needle, long) ==
  LET rs == {Ratio(needle, w) : w \in Windows(long, Len(needle))}
  IN  CHOOSE r \in rs : \A q \in rs : ScoreGe(r, q)

\* fuzz.partial_ratio: the shorter string slid along the longer; strings of
\* equal length are aligned both ways
PartialRatio(s1, s2) ==
  IF Len(s1) = 0 /\ Len(s2) = 0 THEN Score(100, 1)
  ELSE IF Len(s1) = 0 \/ Len(s2) = 0 THEN Score(0, 1)
  ELSE IF Len(s1) < Len(s2) THEN BestAlignment(s1, s2)
  ELSE IF Len(s2) < Len(s1) THEN BestAlignment(s2, s1)
  ELSE LET r1 == BestAlignment(s1, s2)
           r2 == BestAlignment(s2, s1)
       IN  IF ScoreGe(r1, r2) THEN r1 ELSE r2

\* MeetsThreshold with the comparison turned round
MeetsThresholdInverted(r, threshold) == r.num <= threshold * r.den

\* the Python test `score >= threshold` on a ratio
MeetsThreshold(r, threshold) == r.num >= threshold * r.den

\* score / 100.0
Percent(r) == Score(r.num, 100 * r.den)

(***************************************************************************)
(* HybridPIIDetector._fuzzy_match                                          *)
(***************************************************************************)
\* the matches of re.compile(r'\b\w+\b').finditer(text): the maximal runs of
\* word characters, as <<start, end>> in text order
WordTokens(txt) ==
  LET starts == Ascending({p \in 0..(Len(txt) - 1) :
                             /\ txt[p + 1] \in WordChars
                             /\ (p = 0 \/ txt[p] \notin WordChars)})
      EndOf(p) == SetMin({q \in (p + 1)..Len(txt) :
                            q = Len(txt) \/ txt[q + 1] \notin WordChars})
  IN  [k \in 1..Len(starts) |-> <<starts[k], EndOf(starts[k])>>]

\* FuzzyWord without the break statements: a span for every keyword that
\* qualifies
RECURSIVE FuzzyWordNoBreak(_, _, _, _, _, _)
FuzzyWordNoBreak(word, word_start, word_end, keywords, k, threshold) ==
  IF k > Len(keywords) THEN <<>>
  ELSE IF Strip(keywords[k]) = <<>>
  THEN FuzzyWordNoBreak(word, word_start, word_end, keywords, k + 1, threshold)
  ELSE LET score == Ratio(Lower(word), Strip(Lower(keywords[k])))
           partial_score == PartialRatio(Strip(Lower(keywords[k])), Lower(word))
           rest == FuzzyWordNoBreak(word, word_start, word_end, keywords, k + 1,
                                    threshold)
       IN  IF MeetsThreshold(score, threshold)
           THEN <<DetectionResult(word, "CUSTOM_KEYWORD", word_start, word_end,
                                  Percent(score), "fuzzy")>> \o rest
           ELSE IF Len(keywords[k]) > 4 /\ MeetsThreshold(partial_score, threshold)
           THEN <<DetectionResult(word, "CUSTOM_KEYWORD", word_start, word_end,
                                  Percent(partial_score), "fuzzy_partial")>> \o rest
           ELSE rest

\* the inner loop over the keywords for one word: the first keyword that
\* qualifies yields the span and ends the loop
RECURSIVE FuzzyWord(_, _, _, _, _, _)
FuzzyWord(word, word_start, word_end, keywords, k, threshold) ==
  IF k > Len(keywords) THEN <<>>
  ELSE IF Strip(keywords[k]) = <<>>
  THEN FuzzyWord(word, word_start, word_end, keywords, k + 1, threshold)
  ELSE LET score == Ratio(Lower(word), Strip(Lower(keywords[k])))
           partial_score == PartialRatio(Strip(Lower(keywords[k])), Lower(word))
       IN  IF MeetsThreshold(score, threshold)
           THEN <<DetectionResult(word, "CUSTOM_KEYWORD", word_start, word_end,
                                  Percent(score), "fuzzy")>>
           ELSE IF Len(keywords[k]) > 4 /\ MeetsThreshold(partial_score, threshold)
           THEN <<DetectionResult(word, "CUSTOM_KEYWORD", word_start, word_end,
                                  Percent(partial_score), "fuzzy_partial")>>
           ELSE FuzzyWord(word, word_start, word_end, keywords, k + 1, threshold)

FuzzyMatch(txt, keywords, threshold) ==
  LET toks == WordTokens(txt)
  IN  Flatten([i \in 1..Len(toks) |->
                 FuzzyWord(Slice(txt, toks[i][1], toks[i][2]),
                           toks[i][1], toks[i][2], keywords, 1, threshold)])

(***************************************************************************)
(* The backtracking matcher of Python's re, for the constructs the          *)
(* detector's patterns use.  A compiled pattern is a sequence of items:     *)
(*   [k |-> "rep", set, min, max]  a greedy repetition of a character       *)
(*                                 class, max = -1 for no upper limit;      *)
(*   [k |-> "words", words]        an alternation of literal words;         *)
(*   [k |-> "opt", body]           an optional (greedy) non-capturing group;*)
(*   [k |-> "wb"]                  \b;                                      *)
(*   [k |-> "mark"]                the start of capturing group 1;          *)
(*   [k |-> "look"]                the lookahead (?=$|\s{2,}|\n).           *)
(* Every pattern is compiled with re.IGNORECASE: the matcher runs on the    *)
(* lowercased text lt, and a compiled pattern holds lowercase characters.   *)
(***************************************************************************)
\* how many characters from offset p on are in Class
RunLen(txt, p, Class) ==
  SetMin({q \in p..Len(txt) : q = Len(txt) \/ txt[q + 1] \notin Class}) - p

\* \b at offset p
WordBoundary(lt, p) ==
  (p > 0 /\ lt[p] \in WordChars) # (p < Len(lt) /\ lt[p + 1] \in WordChars)

\* (?=$|\s{2,}|\n) at offset e, with re.MULTILINE
LabelLookahead(lt, e) ==
  \/ e = Len(lt)
  \/ lt[e + 1] = "\n"
  \/ (e + 2 <= Len(lt) /\ lt[e + 1] \in Whitespace /\ lt[e + 2] \in Whitespace)

\* ReRun: the first match, in the engine's order of preference, of the items
\* at offset p that ends at min_end or later, as <<start of group 1, end>>,
\* or <<>>.  g is the start of group 1 so far.  A repetition gives back one
\* character at a time; an alternation tries its words in order; an
\* optional group is tried first with its body, then without.
RECURSIVE ReRun(_, _, _, _, _)
RECURSIVE ReRepeat(_, _, _, _, _, _)
RECURSIVE ReWords(_, _, _, _, _, _)
ReRun(items, lt, p, g, min_end) ==
  IF items = <<>>
  THEN (IF p >= min_end THEN <<g, p>> ELSE <<>>)
  ELSE LET h == Head(items)
           t == Tail(items)
       IN  CASE h.k = "rep" ->
                  ReRepeat(items, lt, p, g, min_end,
                           IF h.max < 0 THEN RunLen(lt, p, h.set)
                           ELSE Min(h.max, RunLen(lt, p, h.set)))
             [] h.k = "words" -> ReWords(items, lt, p, g, min_end, 1)
             [] h.k = "opt" ->
                  LET with_body == ReRun(h.body \o t, lt, p, g, min_end)
                  IN  IF with_body # <<>> THEN with_body
                      ELSE ReRun(t, lt, p, g, min_end)
             [] h.k = "wb" ->
                  IF WordBoundary(lt, p) THEN ReRun(t, lt, p, g, min_end) ELSE <<>>
             [] h.k = "mark" -> ReRun(t, lt, p, p, min_end)
             [] h.k = "look" ->
                  IF LabelLookahead(lt, p) THEN ReRun(t, lt, p, g, min_end) ELSE <<>>

ReRepeat(items, lt, p, g, min_end, n) ==
  IF n < Head(items).min THEN <<>>
  ELSE LET r == ReRun(Tail(items), lt, p + n, g, min_end)
       IN  IF r # <<>> THEN r ELSE ReRepeat(items, lt, p, g, min_end, n - 1)

ReWords(items, lt, p, g, min_end, w) ==
  IF w > Len(Head(items).words) THEN <<>>
  ELSE LET r == IF OccursAt(lt, Head(items).words[w], p)
                THEN ReRun(Tail(items), lt, p + Len(Head(items).words[w]), g, min_end)
                ELSE <<>>
       IN  IF r # <<>> THEN r ELSE ReWords(items, lt, p, g, min_end, w + 1)

\* regex.finditer(text) from offset pos on, as <<start, end, start of group 1>>
\* triples: the leftmost match; after an empty match the next one must
\* advance past the offset it is first tried at
RECURSIVE ReFindIter(_, _, _, _)
ReFindIter(items, lt, pos, must_advance) ==
  LET at == [s \in pos..Len(lt) |->
               ReRun(items, lt, s, s, IF must_advance /\ s = pos THEN s + 1 ELSE s)]
      starts == {s \in DOMAIN at : at[s] # <<>>}
  IN  IF starts = {} THEN <<>>
      ELSE LET s == SetMin(starts)
           IN  <<(<<s, at[s][2], at[s][1]>>)>>
                 \o ReFindIter(items, lt, at[s][2], at[s][2] = s)

(***************************************************************************)
(* HybridPIIDetector._regex_match.  The patterns of the model are written   *)
(* with literal characters, starred literals and parentheses; a group is    *)
(* never repeated.                                                          *)
(***************************************************************************)
\* the nesting depth after the first i characters of pattern p
RECURSIVE ParenDepth(_, _)
ParenDepth(p, i) ==
  IF i = 0 THEN 0
  ELSE ParenDepth(p, i - 1)
         + (IF p[i] = "(" THEN 1 ELSE IF p[i] = ")" THEN -1 ELSE 0)

\* whether re.compile accepts p: the parentheses balance ("unbalanced
\* parenthesis", "missing )") and every * follows something it can repeat
\* ("nothing to repeat", "multiple repeat")
ReCompiles(p) ==
  /\ \A i \in 1..Len(p) : ParenDepth(p, i) >= 0
  /\ ParenDepth(p, Len(p)) = 0
  /\ \A i \in 1..Len(p) :
       p[i] = "*" => (i > 1 /\ p[i - 1] \notin {"(", "*"})

\* re.compile(p, re.IGNORECASE): the literals in order, each starred or not
ReCompile(p) ==
  LET idx == Ascending({i \in 1..Len(p) : p[i] \notin {"(", ")", "*"}})
  IN  [k \in 1..Len(idx) |->
         IF idx[k] < Len(p) /\ p[idx[k] + 1] = "*"
         THEN [k |-> "rep", set |-> {LowerChar(p[idx[k]])}, min |-> 0, max |-> -1]
         ELSE [k |-> "rep", set |-> {LowerChar(p[idx[k]])}, min |-> 1, max |-> 1]]

\* one turn of the loop over the patterns: a blank pattern is skipped, a
\* pattern re.compile rejects raises re.error, which is caught and skipped
RegexMatchPattern(txt, pattern) ==
  IF Strip(pattern) = <<>> THEN <<>>
  ELSE IF ~ReCompiles(Strip(pattern)) THEN <<>>
  ELSE LET ms == ReFindIter(ReCompile(Strip(pattern)), Lower(txt), 0, FALSE)
       IN  [k \in 1..Len(ms) |->
              DetectionResult(Slice(txt, ms[k][1], ms[k][2]), "CUSTOM_PATTERN",
                              ms[k][1], ms[k][2], Score(1, 1), "regex")]

\* RegexMatch with the try around the whole loop: the first pattern that
\* does not compile ends the call
RegexMatchAbortOnError(txt, patterns) ==
  LET bad == {k \in 1..Len(patterns) :
                Strip(patterns[k]) # <<>> /\ ~ReCompiles(Strip(patterns[k]))}
      n == IF bad = {} THEN Len(patterns) ELSE SetMin(bad) - 1
  IN  Flatten([k \in 1..n |-> RegexMatchPattern(txt, patterns[k])])

\* the loop over the patterns
RegexMatch(txt, patterns) ==
  Flatten([k \in 1..Len(patterns) |-> RegexMatchPattern(txt, patterns[k])])

(***************************************************************************)
(* HybridPIIDetector._detect_label_based_names                             *)
(***************************************************************************)
\* [\s\:\-\.]
SepChars == Whitespace \cup {":", "-", "."}

\* [A-Z] under (?i): any letter, here lowercased
LetterChars == LowerSet

\* [A-Za-z\s\.], lowercased
ValueChars == LowerSet \cup Whitespace \cup {"."}

\* the most characters {2,40} takes
MaxValueTail == 40

\* the fewest characters {2,40} takes
MinValueTail == 2

\* the compiled label pattern
LabelPattern ==
  << [k |-> "wb"],
     [k |-> "words",
      words |-> << <<"n","a","m","e">>, <<"s","t","u","d","e","n","t">>,
                   <<"f","a","t","h","e","r">>, <<"m","o","t","h","e","r">>,
                   <<"g","u","a","r","d","i","a","n">>,
                   <<"h","u","s","b","a","n","d">>, <<"w","i","f","e">> >>],
     [k |-> "opt",
      body |-> << [k |-> "rep", set |-> Whitespace, min |-> 1, max |-> -1],
                  [k |-> "words",
                   words |-> << <<"n","a","m","e">>, <<"o","f">>,
                                <<"s","t","u","d","e","n","t">> >>] >>],
     [k |-> "rep", set |-> SepChars, min |-> 1, max |-> -1],
     [k |-> "opt",
      body |-> << [k |-> "words", words |-> << <<"a","s">> >>],
                  [k |-> "rep", set |-> Whitespace, min |-> 1, max |-> -1],
                  [k |-> "words", words |-> << <<"i","n">> >>],
                  [k |-> "rep", set |-> Whitespace, min |-> 1, max |-> -1],
                  [k |-> "words", words |-> << <<"a","a","d","h","a","a","r">> >>] >>],
     [k |-> "rep", set |-> SepChars, min |-> 0, max |-> -1],
     [k |-> "mark"],
     [k |-> "rep", set |-> LetterChars, min |-> 1, max |-> 1],
     [k |-> "rep", set |-> ValueChars, min |-> MinValueTail, max |-> MaxValueTail],
     [k |-> "look"] >>

\* the body of the loop over the matches
LabelResult(txt, g) ==
  LET value == Strip(Slice(txt, g[1], g[2]))
      val_lower == Lower(value)
  IN  IF Len(value) < 2 THEN <<>>
      ELSE IF \/ val_lower \in DENY_LIST
              \/ Contains(val_lower, <<"i","d">>)
              \/ Contains(val_lower, <<"n","u","m","b","e","r">>)
      THEN <<>>
      ELSE <<DetectionResult(value, "PERSON", g[1], g[2], Score(85, 100),
                             "label_heuristic")>>

\* DetectLabelBasedNames reporting the whole match, match.start() to
\* match.end(), instead of group 1
DetectLabelBasedNamesWholeMatch(txt) ==
  LET ms == ReFindIter(LabelPattern, Lower(txt), 0, FALSE)
  IN  Flatten([k \in 1..Len(ms) |-> LabelResult(txt, <<ms[k][1], ms[k][2]>>)])

\* the loop over pattern.finditer(text): group 1 of every match
DetectLabelBasedNames(txt) ==
  LET ms == ReFindIter(LabelPattern, Lower(txt), 0, FALSE)
  IN  Flatten([k \in 1..Len(ms) |-> LabelResult(txt, <<ms[k][3], ms[k][2]>>)])

(***************************************************************************)
(* HybridPIIDetector._deduplicate_results                                  *)
(***************************************************************************)
\* KeyLess with the key r.start alone
KeyLessByStartOnly(a, b) == a.start < b.start

\* the sort key (r.start, -r.score): whether a sorts strictly before b
KeyLess(a, b) ==
  \/ a.start < b.start
  \/ (a.start = b.start /\ ScoreGt(a.score, b.score))

\* r put into the sorted list after every element that does not sort after it
InsertSorted(sorted, r) ==
  LET n == Cardinality({i \in 1..Len(sorted) : ~KeyLess(r, sorted[i])})
  IN  SubSeq(sorted, 1, n) \o <<r>> \o SubSeq(sorted, n + 1, Len(sorted))

\* sorted(results, key=lambda r: (r.start, -r.score)): a stable sort
RECURSIVE SortResults(_, _, _)
SortResults(rs, k, acc) ==
  IF k > Len(rs) THEN acc ELSE SortResults(rs, k + 1, InsertSorted(acc, rs[k]))

\* GreedyAccept with the cursor set to the accepted span's start, not its end
RECURSIVE GreedyAcceptCursorAtStart(_, _, _, _)
GreedyAcceptCursorAtStart(sorted, i, last_end, deduped) ==
  IF i > Len(sorted) THEN deduped
  ELSE IF sorted[i].start >= last_end
  THEN GreedyAcceptCursorAtStart(sorted, i + 1, sorted[i].start,
                                 Append(deduped, sorted[i]))
  ELSE GreedyAcceptCursorAtStart(sorted, i + 1, last_end, deduped)

\* GreedyAccept with the cursor moved to the end of every span met, accepted
\* or not
RECURSIVE GreedyAcceptCursorAlwaysMoved(_, _, _, _)
GreedyAcceptCursorAlwaysMoved(sorted, i, last_end, deduped) ==
  IF i > Len(sorted) THEN deduped
  ELSE IF sorted[i].start >= last_end
  THEN GreedyAcceptCursorAlwaysMoved(sorted, i + 1, sorted[i].end,
                                     Append(deduped, sorted[i]))
  ELSE GreedyAcceptCursorAlwaysMoved(sorted, i + 1, sorted[i].end, deduped)

\* the loop over sorted_results with its cursor last_end; the elif branch
\* only passes
RECURSIVE GreedyAccept(_, _, _, _)
GreedyAccept(sorted, i, last_end, deduped) ==
  IF i > Len(sorted) THEN deduped
  ELSE IF sorted[i].start >= last_end
  THEN GreedyAccept(sorted, i + 1, sorted[i].end, Append(deduped, sorted[i]))
  ELSE GreedyAccept(sorted, i + 1, last_end, deduped)

DeduplicateResults(rs) ==
  IF rs = <<>> THEN <<>> ELSE GreedyAccept(SortResults(rs, 1, <<>>), 1, -1, <<>>)

(***************************************************************************)
(* HybridPIIDetector._filter_deny_list                                     *)
(***************************************************************************)
\* DenyListKeeps without the lowercasing of r.text
DenyListKeepsCaseSensitive(r) ==
  LET text_lower == Strip(r.text)
  IN  /\ text_lower \notin DENY_LIST
      /\ ~(Contains(text_lower, <<"n","a","m","e">>) /\ WordCount(text_lower) <= 2)

\* whether the loop keeps r
DenyListKeeps(r) ==
  LET text_lower == Strip(Lower(r.text))
  IN  /\ text_lower \notin DENY_LIST
      /\ ~(Contains(text_lower, <<"n","a","m","e">>) /\ WordCount(text_lower) <= 2)

\* FilterDenyList with the kept results put at the front of the list, the
\* last one first
FilterDenyListReversed(rs) ==
  LET kept == SelectSeq(rs, DenyListKeeps)
  IN  [k \in 1..Len(kept) |-> kept[Len(kept) + 1 - k]]

\* the loop of _filter_deny_list: the results it keeps, in order
FilterDenyList(rs) == SelectSeq(rs, DenyListKeeps)

(***************************************************************************)
(* HybridPIIDetector._detect_with_presidio.  The analyzer is a collaborator:*)
(* its answer is an input of the model: whether analyze() raises, and the  *)
(* list of [start, end, entity_type, score] it returns otherwise.          *)
(***************************************************************************)
\* an absent optional argument (None) and a present one
NoneVal == <<>>

Some(x) == <<x>>

\* the entities handed to the analyzer: the caller's list is copied, and the
\* two locale categories are appended to the copy when absent
AllEntities(entities) ==
  LET with_aadhaar == IF \E i \in 1..Len(entities) : entities[i] = "AADHAAR_IN"
                      THEN entities ELSE Append(entities, "AADHAAR_IN")
  IN  IF \E i \in 1..Len(with_aadhaar) : with_aadhaar[i] = "PAN_IN"
      THEN with_aadhaar ELSE Append(with_aadhaar, "PAN_IN")

DetectWithPresidio(txt, entities, min_score, answer) ==
  IF answer.raises THEN <<>>
  ELSE LET kept == SelectSeq(answer.results, LAMBDA r : ScoreGe(r.score, min_score))
       IN  [k \in 1..Len(kept) |->
              DetectionResult(Slice(txt, kept[k].start, kept[k].end),
                              kept[k].entity_type, kept[k].start, kept[k].end,
                              kept[k].score, "presidio")]

(***************************************************************************)
(* HybridPIIDetector._detect_keywords and HybridPIIDetector.detect         *)
(***************************************************************************)
DetectKeywords(txt, keywords, mode, threshold) ==
  CASE mode = "exact" -> ExactMatch(txt, keywords)
    [] mode = "fuzzy" -> FuzzyMatch(txt, keywords, threshold)
    [] mode = "regex" -> RegexMatch(txt, keywords)
    [] OTHER -> ExactMatch(txt, keywords)

\* the default of detect's min_score parameter
DefaultMinScore == Score(6, 10)

\* the default of the fuzzy_threshold parameters
DefaultFuzzyThreshold == 85

\* self.enabled_entities, as __init__ sets it from its argument
InitEnabledEntities(arg) ==
  IF arg = NoneVal \/ arg[1] = <<>> THEN DEFAULT_ENTITY_TYPES ELSE arg[1]

\* entities_to_use
EntitiesToUse(arg) == IF arg # NoneVal THEN arg[1] ELSE InitEnabledEntities(arg)

\* Layer 1
PresidioLayer(txt, entities_arg, answer) ==
  IF EntitiesToUse(entities_arg) # <<>>
  THEN DetectWithPresidio(txt, EntitiesToUse(entities_arg), DefaultMinScore, answer)
  ELSE <<>>

\* Layer 2
KeywordLayer(txt, keywords_arg, mode, threshold) ==
  IF keywords_arg # NoneVal /\ keywords_arg[1] # <<>>
  THEN DetectKeywords(txt, keywords_arg[1], mode, threshold)
  ELSE <<>>

\* Layer 3
LabelLayer(txt) == DetectLabelBasedNames(txt)

\* LayersRun with the recognizer layer entered on every call
LayersRunRecognizerAlways(entities_arg, keywords_arg) ==
  {"presidio", "label"}
    \cup (IF keywords_arg # NoneVal /\ keywords_arg[1] # <<>>
          THEN {"keywords"} ELSE {})

\* the layers a call of detect enters: Layer 1 under "if entities_to_use",
\* Layer 2 under "if custom_keywords", Layer 3 unconditionally
LayersRun(entities_arg, keywords_arg) ==
  (IF EntitiesToUse(entities_arg) # <<>> THEN {"presidio"} ELSE {})
    \cup (IF keywords_arg # NoneVal /\ keywords_arg[1] # <<>>
          THEN {"keywords"} ELSE {})
    \cup {"label"}

(***************************************************************************)
(* The state of one call of HybridPIIDetector.detect: its arguments, the   *)
(* analyzer's answer, the output of each layer and the returned list.      *)
(***************************************************************************)
VARIABLES
  text,              \* the text argument
  custom_keywords,   \* the custom_keywords argument: NoneVal or Some(list)
  match_mode,        \* the MatchMode value
  fuzzy_threshold,   \* the fuzzy_threshold argument
  enabled_entities,  \* the enabled_entities argument: NoneVal or Some(list)
  analyzer_answer,   \* what self.analyzer.analyze does when it is called
  presidio_results,  \* Layer 1 output
  keyword_results,   \* Layer 2 output
  label_results,     \* Layer 3 output
  layers_run,        \* the layers the call entered
  candidates,        \* results before deduplication
  deduplicated,      \* results after the two deduplication calls
  results,           \* the returned list
  heap,              \* the objects of the process: what each one holds
  self_enabled_entities,  \* the object self.enabled_entities refers to
  accessor_result,   \* the object an accessor function returned last
  det_pc             \* "called" or "returned"

detVars ==
  <<text, custom_keywords, match_mode, fuzzy_threshold, enabled_entities,
    analyzer_answer, presidio_results, keyword_results, label_results,
    layers_run, candidates, deduplicated, results, heap,
    self_enabled_entities, accessor_result, det_pc>>

\* process_image_with_ocr: its arguments, the OCR output and what it draws
VARIABLES
  ocr_text,             \* ocr_result['text']: one string per OCR box
  img_pii_terms,        \* the pii_terms argument
  img_method,           \* the method argument
  img_replace_text,     \* the replace_text argument
  img_fuzzy_threshold,  \* the fuzzy_threshold argument: NoneVal or Some(n)
  rapidfuzz_available,  \* RAPIDFUZZ_AVAILABLE
  img_drawn,            \* what was drawn on the image, in order
  img_pc                \* "idle", "called" or "returned"

imgVars ==
  <<ocr_text, img_pii_terms, img_method, img_replace_text, img_fuzzy_threshold,
    rapidfuzz_available, img_drawn, img_pc>>

\* redact_pdfs, process_pdf_redaction and legal_redact_pdf
VARIABLES
  request,       \* the form fields of the request
  input_files,   \* the uploaded documents, in order
  file_i,        \* the position of the loop over input_files, from 1
  pii_terms,     \* what the analysis of the current document returned
  page_i,        \* the page the current loop of legal_redact_pdf is at, from 1
  image_i,       \* the image of that page the image loop is at, from 1
  red_log,       \* what legal_redact_pdf did to the current document, in order
  output_paths,  \* the outputs appended so far
  response,      \* the response of redact_pdfs, once it has returned
  pipe_pc        \* "idle", "extract", "analyse", "text", "image", "save", "responded"

pipeVars ==
  <<request, input_files, file_i, pii_terms, page_i, image_i, red_log, output_paths,
    response, pipe_pc>>

vars == <<detVars, imgVars, pipeVars>>

(***************************************************************************)
(* The objects of the process.  Python names refer to objects, and a list  *)
(* handed over is the caller's own object unless it is copied.  heap gives *)
(* what each object holds, <<>> for a list that is empty or not yet made:  *)
(* the three module-level objects of hybrid_detector.py, the list the      *)
(* caller passes as enabled_entities, the copy __init__ makes of the       *)
(* defaults, the local all_entities of _detect_with_presidio, and the      *)
(* copies the accessor functions return.                                   *)
(***************************************************************************)
ModuleObjects == {"DEFAULT_ENTITY_TYPES", "DENY_LIST", "ENTITY_TYPE_LABELS"}

Objects ==
  ModuleObjects \cup {"caller_list", "self_default", "all_entities",
                      "labels_copy", "defaults_copy"}

\* the heap once the module is imported and the caller has made its list
LoadedHeap(arg) ==
  [o \in Objects |->
     CASE o = "DEFAULT_ENTITY_TYPES" -> DEFAULT_ENTITY_TYPES
       [] o = "DENY_LIST" -> DENY_LIST
       [] o = "ENTITY_TYPE_LABELS" -> ENTITY_TYPE_LABELS
       [] o = "caller_list" -> IF arg = NoneVal THEN <<>> ELSE arg[1]
       [] OTHER -> <<>>]

\* enabled_entities or DEFAULT_ENTITY_TYPES.copy(): the object
\* self.enabled_entities refers to, the caller's list when it is given and
\* not empty
SelfEnabledEntities(arg) ==
  IF arg # NoneVal /\ arg[1] # <<>> THEN "caller_list" ELSE "self_default"

\* the heap after __init__
InitHeap(h, arg) ==
  IF SelfEnabledEntities(arg) = "self_default"
  THEN [h EXCEPT !["self_default"] = h["DEFAULT_ENTITY_TYPES"]]
  ELSE h

\* analyze_text_from_string has created a detector with the argument arg
DetectorCreated(arg) ==
  /\ heap = InitHeap(LoadedHeap(arg), arg)
  /\ self_enabled_entities = SelfEnabledEntities(arg)
  /\ accessor_result = NoneVal

\* the object entities_to_use refers to
EntitiesToUseObject(arg, self_ref) ==
  IF arg # NoneVal THEN "caller_list" ELSE self_ref

\* DetectWithPresidioHeap with all_entities = entities: the local name
\* refers to the list handed in, and the locale categories are appended to
\* that list
DetectWithPresidioHeapInPlace(h, entities) ==
  [h EXCEPT ![entities] = AllEntities(h[entities]),
            !["all_entities"] = AllEntities(h[entities])]

\* what _detect_with_presidio does to the heap: all_entities is a new list,
\* list(entities), and the locale categories are appended to it
DetectWithPresidioHeap(h, entities) ==
  [h EXCEPT !["all_entities"] = AllEntities(h[entities])]

\* what detect does to the heap
DetectHeap(h, arg, self_ref) ==
  IF h[EntitiesToUseObject(arg, self_ref)] # <<>>
  THEN DetectWithPresidioHeap(h, EntitiesToUseObject(arg, self_ref))
  ELSE h

\* no call of process_image_with_ocr is under way
ImageIdle ==
  /\ ocr_text = <<>>
  /\ img_pii_terms = <<>>
  /\ img_method = "full_redact"
  /\ img_replace_text = <<>>
  /\ img_fuzzy_threshold = NoneVal
  /\ rapidfuzz_available = TRUE
  /\ img_drawn = <<>>
  /\ img_pc = "idle"

\* no request is under way
PipelineIdle ==
  /\ request = NoneVal
  /\ input_files = <<>>
  /\ file_i = 0
  /\ pii_terms = <<>>
  /\ page_i = 0
  /\ image_i = 0
  /\ red_log = <<>>
  /\ output_paths = <<>>
  /\ response = NoneVal
  /\ pipe_pc = "idle"

\* no call of detect is under way
DetectIdle ==
  /\ text = <<>>
  /\ custom_keywords = NoneVal
  /\ match_mode = "exact"
  /\ fuzzy_threshold = 85
  /\ enabled_entities = NoneVal
  /\ DetectorCreated(NoneVal)
  /\ analyzer_answer = [raises |-> FALSE, results |-> <<>>]
  /\ presidio_results = <<>>
  /\ keyword_results = <<>>
  /\ label_results = <<>>
  /\ layers_run = {}
  /\ candidates = <<>>
  /\ deduplicated = <<>>
  /\ results = <<>>
  /\ det_pc = "idle"

\* the sequences over S of length at most n
SeqsUpTo(S, n) == UNION {[1..k -> S] : k \in 0..n}

\* the longest keyword list of a call
MaxKeywords == 2

\* the most results the analyzer returns in one call
MaxAnalyzerResults == 1

\* confidences the analyzer reports: below and above min_score
AnalyzerScores == {Score(1, 2), Score(85, 100), Score(1, 1)}

\* entity types the analyzer recognises in the texts of the model
RecognizedTypes == {"PERSON"}

\* a recognised entity covers whole words: it starts where a word starts and
\* ends where a word ends
AnalyzerRanges(txt) ==
  LET toks == WordTokens(txt)
  IN  {<<toks[i][1], toks[j][2]>> : i \in 1..Len(toks), j \in 1..Len(toks)}
        \cap {se \in (0..Len(txt)) \X (0..Len(txt)) : se[1] < se[2]}

\* what analyze(text, entities=all_entities) may do
AnalyzerAnswers(txt, entities_arg) ==
  IF EntitiesToUse(entities_arg) = <<>>
  THEN {[raises |-> FALSE, results |-> <<>>]}
  ELSE LET all_entities == AllEntities(EntitiesToUse(entities_arg))
           raw == {[start |-> se[1], end |-> se[2], entity_type |-> ty, score |-> sc] :
                     se \in AnalyzerRanges(txt),
                     ty \in {t \in RecognizedTypes :
                               \E i \in 1..Len(all_entities) : all_entities[i] = t},
                     sc \in AnalyzerScores}
       IN  {[raises |-> TRUE, results |-> <<>>]}
             \cup {[raises |-> FALSE, results |-> rs] :
                     rs \in SeqsUpTo(raw, MaxAnalyzerResults)}

\* a call of detect with arguments drawn from the given sets
DetectCalled(texts, keyword_args, modes, thresholds, entity_args) ==
  /\ text \in texts
  /\ custom_keywords \in keyword_args
  /\ match_mode \in modes
  /\ fuzzy_threshold \in
       (IF match_mode = "fuzzy" THEN thresholds ELSE {DefaultFuzzyThreshold})
  /\ enabled_entities \in entity_args
  /\ DetectorCreated(enabled_entities)
  /\ analyzer_answer \in AnalyzerAnswers(text, enabled_entities)
  /\ presidio_results = <<>>
  /\ keyword_results = <<>>
  /\ label_results = <<>>
  /\ layers_run = {}
  /\ candidates = <<>>
  /\ deduplicated = <<>>
  /\ results = <<>>
  /\ det_pc = "called"
  /\ ImageIdle
  /\ PipelineIdle

\* HybridPIIDetector.detect
Detect ==
  /\ det_pc = "called"
  /\ presidio_results' = PresidioLayer(text, enabled_entities, analyzer_answer)
  /\ keyword_results' =
       KeywordLayer(text, custom_keywords, match_mode, fuzzy_threshold)
  /\ label_results' = LabelLayer(text)
  /\ layers_run' = LayersRun(enabled_entities, custom_keywords)
  /\ candidates' = presidio_results' \o keyword_results' \o label_results'
  /\ deduplicated' = DeduplicateResults(DeduplicateResults(candidates'))
  /\ results' = FilterDenyList(deduplicated')
  /\ heap' = DetectHeap(heap, enabled_entities, self_enabled_entities)
  /\ det_pc' = "returned"
  /\ UNCHANGED <<text, custom_keywords, match_mode, fuzzy_threshold,
                 enabled_entities, analyzer_answer, self_enabled_entities,
                 accessor_result>>
  /\ UNCHANGED <<imgVars, pipeVars>>

(***************************************************************************)
(* Calls of detect over mixed inputs: every layer contributes candidates.  *)
(***************************************************************************)
DetectTexts ==
  { <<"I","d"," ","J","o">>,
    <<"N","a","m","e",":"," ","A","l"," "," ">>,
    <<"a","a","b">>,
    <<"j","o","n"," ","J","0","H","N">> }

DetectKeywordPool ==
  { <<"i","d">>, <<" ","j","o">>, <<"a","*">>, <<"j","o","h","n">> }

DetectThresholds == {75, 85}

InitDetect ==
  DetectCalled(DetectTexts,
               {NoneVal} \cup {Some(ks) : ks \in SeqsUpTo(DetectKeywordPool, MaxKeywords)},
               {"exact", "fuzzy", "regex"},
               DetectThresholds,
               {NoneVal, Some(<<>>)})

NextDetect == Detect

SpecDetect == InitDetect /\ [][NextDetect]_vars

\* whether the half-open ranges [start, end) of a and b share a character
Overlap(a, b) == Max(a.start, b.start) < Min(a.end, b.end)

\* C1: the list the overlap resolver returns holds no two distinct spans
\* whose half-open character ranges [start, end) overlap
C1_NoOverlap ==
  det_pc = "returned" =>
    \A i, j \in 1..Len(deduplicated) :
      i # j => ~Overlap(deduplicated[i], deduplicated[j])

\* C1 witness: the resolver was given overlapping candidates, dropped some
\* and returned at least two spans
C1_Witness ==
  /\ det_pc = "returned"
  /\ \E i, j \in 1..Len(candidates) :
       i # j /\ Overlap(candidates[i], candidates[j])
  /\ Len(deduplicated) >= 2
  /\ Len(deduplicated) < Len(candidates)

\* C2: every span detect returns has lowercase(trim(text)) outside the deny
\* list
C2_NoDeniedText ==
  det_pc = "returned" =>
    \A i \in 1..Len(results) : Strip(Lower(results[i].text)) \notin DENY_LIST

\* C2 witness: the filter removed a deny-listed span and kept another one
C2_Witness ==
  /\ det_pc = "returned"
  /\ \E i \in 1..Len(deduplicated) :
       Strip(Lower(deduplicated[i].text)) \in DENY_LIST
  /\ results # <<>>

\* C6: every span detect returns from the keyword, fuzzy, regex and
\* label-heuristic layers has offsets that index the input text exactly:
\* 0 <= start, end <= length(text) and span.text = text[start:end]
C6_OffsetsIndexText ==
  det_pc = "returned" =>
    \A i \in 1..Len(results) :
      results[i].match_mode \in
          {"exact", "fuzzy", "fuzzy_partial", "regex", "label_heuristic"} =>
        /\ 0 <= results[i].start
        /\ results[i].end <= Len(text)
        /\ results[i].text = Slice(text, results[i].start, results[i].end)

\* C7: every span a matcher produces (exact, fuzzy, regex, label heuristic)
\* satisfies start < end: no empty span is emitted
C7_NonEmptySpans ==
  det_pc = "returned" =>
    \A i \in 1..Len(keyword_results \o label_results) :
      (keyword_results \o label_results)[i].start
        < (keyword_results \o label_results)[i].end

(***************************************************************************)
(* Calls of detect in fuzzy mode over a range of thresholds.               *)
(***************************************************************************)
FuzzyTexts ==
  { <<"j","o","n"," ","J","0","H","N">>,
    <<"J","h","o","n"," ","s","m","i","t","h">>,
    <<"j","o","h","n","n","y"," ","j","o">> }

FuzzyKeywordPool ==
  { <<"j","o","h","n">>, <<"s","m","y","t","h","e">>, <<" ","J","o","n"," ">> }

FuzzyThresholds == {0, 50, 67, 75, 85, 100}

InitFuzzy ==
  DetectCalled(FuzzyTexts,
               {Some(ks) : ks \in SeqsUpTo(FuzzyKeywordPool, MaxKeywords)},
               {"fuzzy"},
               FuzzyThresholds,
               {Some(<<"EMAIL_ADDRESS">>)})

SpecFuzzy == InitFuzzy /\ [][NextDetect]_vars

\* C8: for fixed text and keyword list, fuzzy matching is threshold-monotonic:
\* for thresholds t1 <= t2 in 0..100 the call with t2 returns no more spans
\* than the call with t1
C8_ThresholdMonotonic ==
  (det_pc = "returned" /\ custom_keywords # NoneVal) =>
    \A t \in 0..100 :
      /\ t >= fuzzy_threshold =>
           Len(FuzzyMatch(text, custom_keywords[1], t)) <= Len(keyword_results)
      /\ t <= fuzzy_threshold =>
           Len(keyword_results) <= Len(FuzzyMatch(text, custom_keywords[1], t))

\* C8 witness: a call whose number of spans drops strictly when the threshold
\* is raised to 100 and grows strictly when it is lowered to 0
C8_Witness ==
  /\ det_pc = "returned"
  /\ custom_keywords # NoneVal
  /\ keyword_results # <<>>
  /\ Len(FuzzyMatch(text, custom_keywords[1], 100)) < Len(keyword_results)
  /\ Len(keyword_results) < Len(FuzzyMatch(text, custom_keywords[1], 0))

(***************************************************************************)
(* Calls of detect in regex mode: lists mixing patterns that compile with  *)
(* patterns that do not.                                                   *)
(***************************************************************************)
RegexTexts ==
  { <<"a","a","b">>, <<"A","b"," ","b","a">>, <<"b","A","B","a","b">> }

RegexPatternPool ==
  { <<"a">>, <<"a","b","*">>, <<"(","a","b",")">>, <<" ","B"," ">>,
    <<"(","a">>, <<"b",")">>, <<"*","a">>, <<" ">> }

InitRegex ==
  DetectCalled(RegexTexts,
               {Some(ps) : ps \in SeqsUpTo(RegexPatternPool, MaxKeywords)},
               {"regex"},
               {DefaultFuzzyThreshold},
               {Some(<<"EMAIL_ADDRESS">>)})

SpecRegex == InitRegex /\ [][NextDetect]_vars

\* whether re.compile accepts the pattern as the loop hands it over
PatternCompiles(pattern) == ReCompiles(Strip(pattern))

\* C9: in regex mode a pattern that fails to compile is skipped, and the
\* valid patterns before and after it still contribute all their matches:
\* the result equals that of the call with the invalid patterns removed
C9_InvalidPatternSkipped ==
  (det_pc = "returned" /\ match_mode = "regex" /\ custom_keywords # NoneVal) =>
    keyword_results =
      RegexMatch(text, SelectSeq(custom_keywords[1], PatternCompiles))

\* C9 witness: a call whose list starts with a pattern that does not compile,
\* followed by a valid pattern that matched
C9_Witness ==
  /\ det_pc = "returned"
  /\ match_mode = "regex"
  /\ custom_keywords # NoneVal
  /\ Len(custom_keywords[1]) >= 2
  /\ ~PatternCompiles(custom_keywords[1][1])
  /\ PatternCompiles(custom_keywords[1][2])
  /\ keyword_results # <<>>

(***************************************************************************)
(* Calls of detect on form lines: labels followed by values.               *)
(***************************************************************************)
FatherNameLine ==
  <<"F","a","t","h","e","r"," ","N","a","m","e"," "," ",
    "K","I","S","H","O","R"," ","K","U","M","A","R">>

LabelTexts ==
  { FatherNameLine,
    <<"F","a","t","h","e","r"," ","N","a","m","e"," "," "," "," "," "," "," ",
      " "," "," ","K","I","S","H","O","R"," ","K","U","M","A","R">>,
    <<"N","a","m","e"," ","a","s"," ","i","n"," ","A","a","d","h","a","a","r",
      " "," "," ","M","A","N","A","S"," ","S">>,
    <<"S","t","u","d","e","n","t"," ","I","D"," "," "," "," "," "," "," "," ",
      " "," "," ","2","1","2","2","0","7","5","5","9","3","7">>,
    <<"S","e","a","t"," ","T","y","p","e"," "," "," "," "," "," "," "," "," ",
      " "," "," ","S","N","Q">>,
    <<"N","a","m","e",":"," ","A","l","\n","W","i","f","e",":"," ","B","o"," ",
      "L","i">>,
    <<"M","o","t","h","e","r"," ","-"," ","I","d"," ","C","a","r","d">>,
    <<"N","a","m","e",":"," ","A","l"," "," ","B","o">>,
    <<"N","a","m","e",":"," ","B","o","b","\n","J","o","e">>,
    <<"x","N","a","m","e",":"," ","B","o","b">>,
    <<"K","I","S","H","O","R"," ","K","U","M","A","R">>,
    <<"N","a","m","e"," "," ","A","l"," "," ">> }

InitLabel ==
  DetectCalled(LabelTexts,
               {NoneVal},
               {"exact"},
               {DefaultFuzzyThreshold},
               {NoneVal, Some(<<"EMAIL_ADDRESS">>)})

SpecLabel == InitLabel /\ [][NextDetect]_vars

\* the words the label pattern starts with
LabelWords ==
  { <<"n","a","m","e">>, <<"s","t","u","d","e","n","t">>,
    <<"f","a","t","h","e","r">>, <<"m","o","t","h","e","r">>,
    <<"g","u","a","r","d","i","a","n">>, <<"h","u","s","b","a","n","d">>,
    <<"w","i","f","e">> }

\* whether the span r ends a match of the label pattern whose label word lies
\* wholly before r.start
IntroducedBefore(txt, r) ==
  LET ms == ReFindIter(LabelPattern, Lower(txt), 0, FALSE)
  IN  \E k \in 1..Len(ms) :
        /\ ms[k][2] = r.end
        /\ \E w \in LabelWords :
             /\ OccursAt(Lower(txt), w, ms[k][1])
             /\ ms[k][1] + Len(w) <= r.start

\* C10: the label heuristic reports the value and never the label: the line
\* "Father Name  KISHOR KUMAR" yields exactly one span, with text
\* "KISHOR KUMAR", category PERSON and confidence 0.85, and the range of every
\* span starts after the label word that introduced it
C10_LabelValueOnly ==
  det_pc = "returned" =>
    /\ text = FatherNameLine =>
         /\ Len(label_results) = 1
         /\ label_results[1].text =
              <<"K","I","S","H","O","R"," ","K","U","M","A","R">>
         /\ label_results[1].entity_type = "PERSON"
         /\ ScoreEq(label_results[1].score, Score(85, 100))
         /\ label_results[1].start = 13
         /\ label_results[1].end = 25
    /\ \A i \in 1..Len(label_results) : IntroducedBefore(text, label_results[i])

\* C10 witness: the heuristic has run on "Father Name  KISHOR KUMAR" and
\* produced a span
C10_Witness ==
  /\ det_pc = "returned"
  /\ text = FatherNameLine
  /\ label_results # <<>>

(***************************************************************************)
(* ocr_redaction.py: process_image_with_ocr.  The OCR engine is a          *)
(* collaborator: its word list is an input of the model, and a drawing is  *)
(* recorded by the index of the OCR box it covers.                         *)
(***************************************************************************)
\* the Python test `fuzzy_threshold and RAPIDFUZZ_AVAILABLE`: None and 0 are
\* both false
FuzzyEnabled(threshold, available) ==
  /\ threshold # NoneVal
  /\ threshold[1] # 0
  /\ available

\* TermMatchesWord with > in place of >= in both threshold tests
TermMatchesWordStrict(term, word, threshold, available) ==
  \/ Contains(Lower(word), Lower(term))
  \/ /\ FuzzyEnabled(threshold, available)
     /\ \/ ScoreGt(Ratio(Lower(word), Lower(term)), Score(threshold[1], 1))
        \/ /\ Len(term) > 4
           /\ ScoreGt(PartialRatio(Lower(term), Lower(word)),
                      Score(threshold[1], 1))

\* one turn of the loop over pii_terms: whether the term sets is_match
TermMatchesWord(term, word, threshold, available) ==
  \/ Contains(Lower(word), Lower(term))
  \/ /\ FuzzyEnabled(threshold, available)
     /\ \/ MeetsThreshold(Ratio(Lower(word), Lower(term)), threshold[1])
        \/ /\ Len(term) > 4
           /\ MeetsThreshold(PartialRatio(Lower(term), Lower(word)),
                             threshold[1])

\* is_match after the loop over pii_terms
IsMatch(word, terms, threshold, available) ==
  \E k \in 1..Len(terms) : TermMatchesWord(terms[k], word, threshold, available)

\* Drawing with the replacement text put on a black rectangle
DrawingReplaceOnBlack(box, method, replace_text) ==
  IF method = "replace"
  THEN [box |-> box, fill |-> "black", text |-> Some(replace_text)]
  ELSE IF method = "obfuscate"
  THEN [box |-> box, fill |-> "black", text |-> NoneVal]
  ELSE [box |-> box, fill |-> "white", text |-> NoneVal]

\* what is drawn over a matched box: the fill of the rectangle and the text
\* put on it, if any
Drawing(box, method, replace_text) ==
  IF method = "replace"
  THEN [box |-> box, fill |-> "white", text |-> Some(replace_text)]
  ELSE IF method = "obfuscate"
  THEN [box |-> box, fill |-> "black", text |-> NoneVal]
  ELSE [box |-> box, fill |-> "white", text |-> NoneVal]

\* the body of the loop over the OCR boxes
ProcessBox(i, words, terms, method, replace_text, threshold, available) ==
  IF Strip(words[i]) = <<>> THEN <<>>
  ELSE IF IsMatch(Strip(words[i]), terms, threshold, available)
  THEN <<Drawing(i, method, replace_text)>>
  ELSE <<>>

\* the loop over the OCR boxes: everything drawn on the image
DrawnOn(words, terms, method, replace_text, threshold, available) ==
  Flatten([i \in 1..Len(words) |->
             ProcessBox(i, words, terms, method, replace_text, threshold,
                        available)])

\* process_image_with_ocr
ProcessImageWithOcr ==
  /\ img_pc = "called"
  /\ img_drawn' = DrawnOn(ocr_text, img_pii_terms, img_method,
                          img_replace_text, img_fuzzy_threshold,
                          rapidfuzz_available)
  /\ img_pc' = "returned"
  /\ UNCHANGED <<ocr_text, img_pii_terms, img_method, img_replace_text,
                 img_fuzzy_threshold, rapidfuzz_available>>
  /\ UNCHANGED <<detVars, pipeVars>>

\* the most OCR boxes of an image
MaxOcrWords == 2

\* the longest term list of a call
MaxTerms == 1

OcrWordPool ==
  { <<"J","0","H","N">>, <<"J","O","H","N">>, <<" ">>,
    <<"J","o","h","n","s","o","n"," ">> }

TermPool == { <<"J","O","H","N">>, <<"j","o","h","n","s">> }

ImageThresholds == {NoneVal, Some(0), Some(1), Some(75), Some(76), Some(85), Some(100)}

ImageMethods == {"full_redact", "obfuscate", "replace", "blur"}

InitRaster ==
  /\ ocr_text \in SeqsUpTo(OcrWordPool, MaxOcrWords) \ {<<>>}
  /\ img_pii_terms \in SeqsUpTo(TermPool, MaxTerms)
  /\ img_method \in ImageMethods
  /\ img_replace_text = <<"[","R","]">>
  /\ img_fuzzy_threshold \in ImageThresholds
  /\ rapidfuzz_available \in BOOLEAN
  /\ img_drawn = <<>>
  /\ img_pc = "called"
  /\ DetectIdle
  /\ PipelineIdle

NextRaster == ProcessImageWithOcr

SpecRaster == InitRaster /\ [][NextRaster]_vars

\* a call with the single OCR word "J0HN" and the single term "JOHN"
J0hnCall ==
  /\ ocr_text = << <<"J","0","H","N">> >>
  /\ img_pii_terms = << <<"J","O","H","N">> >>

\* C5 (as amended): the OCR word "J0HN" with the single term "JOHN" has
\* ratio 75, so it is matched exactly when the fuzzy test is enabled and the
\* threshold is in 1..75: it is matched neither at threshold 85 nor at 100
C5_J0hnMatchedUpTo75 ==
  (img_pc = "returned" /\ J0hnCall) =>
    (img_drawn # <<>> <=>
       /\ rapidfuzz_available
       /\ img_fuzzy_threshold # NoneVal
       /\ img_fuzzy_threshold[1] >= 1
       /\ img_fuzzy_threshold[1] <= 75)

\* C5 witness: the word "J0HN" was redacted for the term "JOHN" at threshold 75
C5_Witness ==
  /\ img_pc = "returned"
  /\ J0hnCall
  /\ img_fuzzy_threshold = Some(75)
  /\ img_drawn # <<>>

\* C5 as stated: the OCR word "J0HN" with the single term "JOHN" is matched
\* at fuzzy threshold 85 and is not matched at fuzzy threshold 100
C5_J0hnMatchedAt85 ==
  (img_pc = "returned" /\ J0hnCall /\ rapidfuzz_available) =>
    /\ img_fuzzy_threshold = Some(85) => img_drawn # <<>>
    /\ img_fuzzy_threshold = Some(100) => img_drawn = <<>>

(***************************************************************************)
(* ocr_redaction.py: position resolution on a page.  A page's text layer   *)
(* is what the PDF library reports: its lines, each a list of spans with a *)
(* text and a box <<x0, y0, x1, y1>>; whether get_text("dict") succeeds;   *)
(* and, per needle, the rectangles page.search_for answers with.           *)
(***************************************************************************)
Span(txt, bbox) == [text |-> txt, bbox |-> bbox]

TextPageOf(lines, dict_ok, native) ==
  [lines |-> lines, dict_ok |-> dict_ok, native |-> native]

\* page.search_for(needle)
NativeSearch(page, needle) ==
  IF needle \in DOMAIN page.native THEN page.native[needle] ELSE <<>>

\* fitz.Rect | fitz.Rect: the smallest rectangle holding both
RectUnion(a, b) ==
  <<Min(a[1], b[1]), Min(a[2], b[2]), Max(a[3], b[3]), Max(a[4], b[4])>>

\* the loop over rects[1:] of _get_rect_for_range
RECURSIVE UnionAll(_, _, _)
UnionAll(rects, k, acc) ==
  IF k > Len(rects) THEN acc ELSE UnionAll(rects, k + 1, RectUnion(acc, rects[k]))

\* span_info of a line: <<span_start, span_end, bbox>> per span, the offsets
\* counted in the concatenated text of the line
RECURSIVE SpanInfo(_, _, _, _)
SpanInfo(spans, k, offset, acc) ==
  IF k > Len(spans) THEN acc
  ELSE SpanInfo(spans, k + 1, offset + Len(spans[k].text),
                Append(acc, <<offset, offset + Len(spans[k].text),
                              spans[k].bbox>>))

\* line_text: the texts of the spans of a line, concatenated
LineText(spans) == Flatten([k \in 1..Len(spans) |-> spans[k].text])

\* SpanInRange taking only the span that holds the first character
SpanInRangeFirstOnly(info, start, end) == info[1] <= start /\ start < info[2]

\* whether _get_rect_for_range takes the span for the range start..end
SpanInRange(info, start, end) == info[2] > start /\ info[1] < end

\* _get_rect_for_range: NoneVal, or Some(rect)
GetRectForRange(span_info, start, end) ==
  LET hit == {k \in 1..Len(span_info) : SpanInRange(span_info[k], start, end)}
      idx == Ascending(hit)
      rects == [k \in 1..Len(idx) |-> span_info[idx[k]][3]]
  IN  IF rects = <<>> THEN NoneVal ELSE Some(UnionAll(rects, 2, rects[1]))

\* the Python test `if rect:` on what _get_rect_for_range returned: None is
\* false, and so is a rectangle whose four coordinates are all 0
RectTruthy(r) == r # NoneVal /\ r[1] # <<0, 0, 0, 0>>

\* the body of the loop over the lines in _character_level_search: one
\* rectangle per occurrence of the lowercased term in the lowercased line
LineSearch(spans, term) ==
  LET line_lower == Lower(LineText(spans))
      span_info == SpanInfo(spans, 1, 0, <<>>)
      found == Ascending({p \in 0..Len(line_lower) :
                            OccursAt(line_lower, Lower(term), p)})
      RectAt(p) == GetRectForRange(span_info, p, p + Len(term))
  IN  Flatten([k \in 1..Len(found) |->
                 IF RectTruthy(RectAt(found[k])) THEN RectAt(found[k]) ELSE <<>>])

\* _character_level_search: an exception of get_text is caught and leaves
\* the list empty
CharacterLevelSearch(page, term) ==
  IF ~page.dict_ok THEN <<>>
  ELSE Flatten([l \in 1..Len(page.lines) |-> LineSearch(page.lines[l], term)])

\* str.split(): the maximal runs of non-whitespace characters
SplitWords(s) ==
  LET starts == Ascending({i \in 1..Len(s) :
                             /\ s[i] \notin Whitespace
                             /\ (i = 1 \/ s[i - 1] \in Whitespace)})
      EndOf(i) == SetMin({j \in i..Len(s) :
                            j = Len(s) \/ s[j + 1] \in Whitespace})
  IN  [k \in 1..Len(starts) |-> SubSeq(s, starts[k], EndOf(starts[k]))]

\* the body of the loop over the spans in _fuzzy_search_in_page: the box of
\* the span, once, when one of its words reaches the threshold
SpanFuzzy(span, term, threshold) ==
  IF \E w \in 1..Len(SplitWords(span.text)) :
       MeetsThreshold(Ratio(Lower(SplitWords(span.text)[w]), Lower(term)),
                      threshold)
  THEN <<span.bbox>>
  ELSE <<>>

\* _fuzzy_search_in_page
FuzzySearchInPage(page, term, threshold) ==
  IF ~page.dict_ok THEN <<>>
  ELSE Flatten([l \in 1..Len(page.lines) |->
                  Flatten([k \in 1..Len(page.lines[l]) |->
                             SpanFuzzy(page.lines[l][k], term, threshold)])])

\* the result of a search: the rectangles, and the strategies consulted
SearchResult(areas, consulted) == [areas |-> areas, consulted |-> consulted]

\* SearchTextWithFallback with the character-level search tried before the
\* native searches in other letter cases
SearchCharacterLevelFirst(page, term, threshold, available) ==
  IF NativeSearch(page, term) # <<>>
  THEN SearchResult(NativeSearch(page, term), <<"native">>)
  ELSE IF CharacterLevelSearch(page, term) # <<>>
  THEN SearchResult(CharacterLevelSearch(page, term),
                    <<"native", "character_level">>)
  ELSE IF NativeSearch(page, Lower(term)) # <<>>
  THEN SearchResult(NativeSearch(page, Lower(term)),
                    <<"native", "character_level", "native_lower">>)
  ELSE SearchResult(NativeSearch(page, Upper(term)),
                    <<"native", "character_level", "native_lower",
                      "native_upper">>)

\* search_text_with_fallback
SearchTextWithFallback(page, term, threshold, available) ==
  IF NativeSearch(page, term) # <<>>
  THEN SearchResult(NativeSearch(page, term), <<"native">>)
  ELSE IF NativeSearch(page, Lower(term)) # <<>>
  THEN SearchResult(NativeSearch(page, Lower(term)),
                    <<"native", "native_lower">>)
  ELSE IF NativeSearch(page, Upper(term)) # <<>>
  THEN SearchResult(NativeSearch(page, Upper(term)),
                    <<"native", "native_lower", "native_upper">>)
  ELSE IF CharacterLevelSearch(page, term) # <<>>
  THEN SearchResult(CharacterLevelSearch(page, term),
                    <<"native", "native_lower", "native_upper",
                      "character_level">>)
  ELSE IF ~FuzzyEnabled(threshold, available)
  THEN SearchResult(<<>>, <<"native", "native_lower", "native_upper",
                            "character_level">>)
  ELSE SearchResult(FuzzySearchInPage(page, term, threshold[1]),
                    <<"native", "native_lower", "native_upper",
                      "character_level", "fuzzy">>)

(***************************************************************************)
(* app.py: redact_pdfs; redaction_service.py: process_pdf_redaction;       *)
(* ocr_redaction.py: legal_redact_pdf.  A document is what the file system *)
(* and the PDF library make of it: whether it opens, whether its text can  *)
(* be analysed, whether its output can be saved, and the number of         *)
(* embedded images of each page.  An output is named by the position of    *)
(* its input in the batch.                                                 *)
(***************************************************************************)
Document(opens, analysable, saves, images) ==
  [opens |-> opens, analysable |-> analysable, saves |-> saves,
   images |-> images,
   pages |-> [p \in 1..Len(images) |-> TextPageOf(<<>>, TRUE, <<>>)],
   unreadable |-> {}, ocr_words |-> <<>>]

\* the document with the given text layers, one per page
WithPages(doc, pages) == [doc EXCEPT !.pages = pages]

\* the document with OCR raising on the given images, <<page, image>> pairs
WithUnreadable(doc, pairs) == [doc EXCEPT !.unreadable = pairs]

\* the document with the given OCR words read off each of its images
WithOcrWords(doc, words) == [doc EXCEPT !.ocr_words = words]

\* the form fields redact_pdfs reads and hands on
Request(method, replace_text, mode, threshold) ==
  [method |-> method, replace_text |-> replace_text,
   match_mode |-> mode, fuzzy_threshold |-> threshold]

\* pdf_fuzzy_threshold: the threshold is passed on in fuzzy mode only
PdfFuzzyThreshold(req) ==
  IF req.match_mode = "fuzzy" THEN Some(req.fuzzy_threshold) ELSE NoneVal

\* Annotation with a black fill in the last branch
AnnotationElseBlack(rect, method, replace_text) ==
  IF method = "replace"
  THEN [rect |-> rect, fill |-> "white", text |-> replace_text]
  ELSE [rect |-> rect, fill |-> "black", text |-> <<>>]

\* the redaction annotation added over a rectangle: the fill of the
\* rectangle once applied (white unless given) and the text put on it
Annotation(rect, method, replace_text) ==
  IF method = "replace"
  THEN [rect |-> rect, fill |-> "white", text |-> replace_text]
  ELSE IF method = "obfuscate"
  THEN [rect |-> rect, fill |-> "black", text |-> <<>>]
  ELSE [rect |-> rect, fill |-> "white", text |-> <<>>]

\* the loop over pii_terms on one page: the search of every term
PageSearches(page, terms, threshold, available) ==
  [k \in 1..Len(terms) |->
     SearchTextWithFallback(page, terms[k], threshold, available)]

\* the annotations the loop over pii_terms adds to one page
PageAnnotations(searches, method, replace_text) ==
  Flatten([k \in 1..Len(searches) |->
             [a \in 1..Len(searches[k].areas) |->
                Annotation(searches[k].areas[a], method, replace_text)]])

\* the position (page, image) of the first image at or after (p, k) in the
\* two nested loops of the image pass; a page beyond the last when none
RECURSIVE NextImage(_, _, _)
NextImage(images, p, k) ==
  IF p > Len(images) THEN <<p, 1>>
  ELSE IF k > images[p] THEN NextImage(images, p + 1, 1)
  ELSE <<p, k>>

\* TextPassDone after the first page, whatever the number of pages: the image
\* pass of a page follows its text pass at once
TextPassDoneAfterOnePage(next_page, page_count) == next_page > 1

\* whether the first loop over the pages of the document has ended
TextPassDone(next_page, page_count) == next_page > page_count

\* the except clause of redact_pdfs: whatever was raised below it becomes a
\* 500 response, and the session folder with every output in it is removed
Respond500 ==
  /\ response' = Some([status |-> 500, files |-> <<>>])
  /\ pipe_pc' = "responded"

\* the terms an analysis may return
AnalysisOutcomes ==
  { <<>>, << <<"J","o","h","n">> >>, << <<"z","e","d">>, <<"J","o","h","n">> >> }

\* whether print_contents returns: fitz.open, and extract_image, Image.open
\* and perform_ocr on each image of each page, are called outside any try
\* block, so it returns when none of them raises
PrintContentsReturns(doc) == doc.opens /\ doc.unreadable = {}

\* print_contents: the document opens and its text is written out
PrintContents ==
  /\ pipe_pc = "extract"
  /\ PrintContentsReturns(input_files[file_i])
  /\ pipe_pc' = "analyse"
  /\ UNCHANGED <<request, input_files, file_i, pii_terms, page_i, image_i, red_log,
                 output_paths, response>>
  /\ UNCHANGED <<detVars, imgVars>>

\* print_contents raises: nothing catches it before redact_pdfs
PrintContentsRaises ==
  /\ pipe_pc = "extract"
  /\ ~PrintContentsReturns(input_files[file_i])
  /\ Respond500
  /\ UNCHANGED <<request, input_files, file_i, pii_terms, page_i, image_i, red_log,
                 output_paths>>
  /\ UNCHANGED <<detVars, imgVars>>

\* analyze_text_from_string returns; legal_redact_pdf is entered and opens
\* the document
AnalyzeText ==
  /\ pipe_pc = "analyse"
  /\ input_files[file_i].analysable
  /\ pii_terms' \in AnalysisOutcomes
  /\ page_i' = 1
  /\ image_i' = 1
  /\ pipe_pc' = "text"
  /\ UNCHANGED <<request, input_files, file_i, red_log, output_paths, response>>
  /\ UNCHANGED <<detVars, imgVars>>

\* the analysis raises: the except clause raises again
AnalyzeTextRaises ==
  /\ pipe_pc = "analyse"
  /\ ~input_files[file_i].analysable
  /\ Respond500
  /\ UNCHANGED <<request, input_files, file_i, pii_terms, page_i, image_i, red_log,
                 output_paths>>
  /\ UNCHANGED <<detVars, imgVars>>

\* one turn of the first loop over the pages: the annotations of the page
\* are added and page.apply_redactions() commits them; after the last page
\* the second loop starts at the first image of the document
TextPage ==
  /\ pipe_pc = "text"
  /\ LET searches == PageSearches(input_files[file_i].pages[page_i],
                                  pii_terms, PdfFuzzyThreshold(request[1]),
                                  rapidfuzz_available)
     IN  red_log' =
           Append(red_log,
                  [file |-> file_i, op |-> "apply_redactions",
                   page |-> page_i, image |-> 0, ok |-> TRUE,
                   searches |-> searches,
                   annots |-> PageAnnotations(searches, request[1].method,
                                              request[1].replace_text)])
  /\ LET images == input_files[file_i].images
         first == NextImage(images, 1, 1)
     IN  IF ~TextPassDone(page_i + 1, Len(images))
         THEN /\ page_i' = page_i + 1
              /\ UNCHANGED <<image_i, pipe_pc>>
         ELSE /\ page_i' = first[1]
              /\ image_i' = first[2]
              /\ pipe_pc' = IF first[1] > Len(images) THEN "save" ELSE "image"
  /\ UNCHANGED <<request, input_files, file_i, pii_terms, output_paths, response>>
  /\ UNCHANGED <<detVars, imgVars>>

\* AfterImage with the loop over the images left at the first failure
AfterImageLeaveOnFailure(ok, next_page, page_count) ==
  IF ~ok \/ next_page > page_count THEN "save" ELSE "image"

\* where the image pass stands after one image: the except clause ends in
\* continue, so a failed image is followed by the next one like any other,
\* and the pass ends when the pages are exhausted
AfterImage(ok, next_page, page_count) ==
  IF next_page > page_count THEN "save" ELSE "image"

\* what process_image_with_ocr draws on the image the pass stands at, with
\* the arguments legal_redact_pdf hands it
ImageDrawn ==
  DrawnOn(input_files[file_i].ocr_words, pii_terms, request[1].method,
          request[1].replace_text, PdfFuzzyThreshold(request[1]),
          rapidfuzz_available)

\* one turn of the loop over the images of a page, ended with outcome ok:
\* the image was extracted, processed and replaced (TRUE), or an exception
\* was caught and the loop went on (FALSE)
ImageTurn(ok) ==
  /\ pipe_pc = "image"
  /\ red_log' = Append(red_log, [file |-> file_i, op |-> "image",
                                 page |-> page_i, image |-> image_i, ok |-> ok,
                                 searches |-> <<>>,
                                 annots |-> IF ok THEN ImageDrawn ELSE <<>>])
  /\ LET images == input_files[file_i].images
         next == NextImage(images, page_i, image_i + 1)
     IN  /\ page_i' = next[1]
         /\ image_i' = next[2]
         /\ pipe_pc' = AfterImage(ok, next[1], Len(images))
  /\ UNCHANGED <<request, input_files, file_i, pii_terms, output_paths, response>>
  /\ UNCHANGED <<detVars, imgVars>>

ImageReplaced == ImageTurn(TRUE)

ImageFails == ImageTurn(FALSE)

\* doc.save succeeds and legal_redact_pdf returns: the output is appended;
\* after the last document redact_pdfs answers with every output
Save ==
  /\ pipe_pc = "save"
  /\ input_files[file_i].saves
  /\ output_paths' = Append(output_paths, file_i)
  /\ IF file_i < Len(input_files)
     THEN /\ file_i' = file_i + 1
          /\ pipe_pc' = "extract"
          /\ UNCHANGED response
     ELSE /\ response' = Some([status |-> 200, files |-> output_paths'])
          /\ pipe_pc' = "responded"
          /\ UNCHANGED file_i
  /\ UNCHANGED <<request, input_files, pii_terms, page_i, image_i, red_log>>
  /\ UNCHANGED <<detVars, imgVars>>

\* doc.save raises: nothing catches it before redact_pdfs
SaveRaises ==
  /\ pipe_pc = "save"
  /\ ~input_files[file_i].saves
  /\ Respond500
  /\ UNCHANGED <<request, input_files, file_i, pii_terms, page_i, image_i, red_log,
                 output_paths>>
  /\ UNCHANGED <<detVars, imgVars>>

\* the request whose form holds no field but the files
DefaultRequest ==
  Request("full_redact", <<"[","R","E","D","A","C","T","E","D","]">>,
          "exact", DefaultFuzzyThreshold)

\* redact_pdfs has saved the uploads and calls process_pdf_redaction
RequestReceived(requests, batches) ==
  /\ request \in {Some(r) : r \in requests}
  /\ input_files \in batches
  /\ file_i = 1
  /\ pii_terms = <<>>
  /\ page_i = 0
  /\ image_i = 0
  /\ red_log = <<>>
  /\ output_paths = <<>>
  /\ response = NoneVal
  /\ pipe_pc = "extract"
  /\ DetectIdle
  /\ ImageIdle

NextPipeline ==
  \/ PrintContents
  \/ PrintContentsRaises
  \/ AnalyzeText
  \/ AnalyzeTextRaises
  \/ TextPage
  \/ ImageReplaced
  \/ ImageFails
  \/ Save
  \/ SaveRaises

\* the most pages of a document
MaxPages == 2

\* the most embedded images of a page
MaxImages == 2

\* the most documents of a batch
MaxFiles == 2

\* the page layouts: from one page up to MaxPages, each with up to MaxImages
PageLayouts == SeqsUpTo(0..MaxImages, MaxPages) \ {<<>>}

(***************************************************************************)
(* Requests with one document, of every page layout.                       *)
(***************************************************************************)
InitRedact ==
  RequestReceived({DefaultRequest}, { <<Document(o, a, s, images)>> :
                      o \in BOOLEAN, a \in BOOLEAN, s \in BOOLEAN,
                      images \in PageLayouts })

SpecRedact == InitRedact /\ [][NextPipeline]_vars

(***************************************************************************)
(* Requests with a batch of documents, sound or failing.                   *)
(***************************************************************************)
BatchDocuments ==
  { Document(TRUE, TRUE, TRUE, <<1>>),
    Document(TRUE, TRUE, TRUE, <<0, 1>>),
    Document(FALSE, TRUE, TRUE, <<0>>),
    Document(TRUE, FALSE, TRUE, <<0>>),
    Document(TRUE, TRUE, FALSE, <<1>>) }

InitBatch == RequestReceived({DefaultRequest}, SeqsUpTo(BatchDocuments, MaxFiles) \ {<<>>})

SpecBatch == InitBatch /\ [][NextPipeline]_vars

\* the pages of the document a log record is about
PagesOf(rec) == 1..Len(input_files[rec.file].images)

\* C3: in legal_redact_pdf the text-redaction commit (apply_redactions) of
\* every page comes before the first image extraction or replacement on any
\* page: no commit follows an image operation on the same document
C3_TextPassBeforeImagePass ==
  \A j \in 1..Len(red_log) :
    red_log[j].op = "image" =>
      /\ \A p \in PagesOf(red_log[j]) :
           \E i \in 1..(j - 1) :
             /\ red_log[i].file = red_log[j].file
             /\ red_log[i].op = "apply_redactions"
             /\ red_log[i].page = p
      /\ \A i \in (j + 1)..Len(red_log) :
           red_log[i].file = red_log[j].file =>
             red_log[i].op # "apply_redactions"

\* C3 witness: a document of two pages whose images on both pages have been
\* processed
C3_Witness ==
  /\ pipe_pc = "save"
  /\ Len(input_files[file_i].images) = 2
  /\ \E i, j \in 1..Len(red_log) :
       /\ red_log[i].op = "image" /\ red_log[i].page = 1
       /\ red_log[j].op = "image" /\ red_log[j].page = 2

\* whether opening, analysing and saving the document all succeed
Sound(doc) == doc.opens /\ doc.analysable /\ doc.saves

\* C4: when opening, analysing or saving one document of a batch fails, every
\* other document is still processed and its redacted output is produced
C4_FailureIsolated ==
  (pipe_pc = "responded" /\ response # NoneVal) =>
    \A d \in 1..Len(input_files) :
      Sound(input_files[d]) =>
        \E k \in 1..Len(response[1].files) : response[1].files[k] = d

(***************************************************************************)
(* Calls of detect in exact mode.                                          *)
(***************************************************************************)
ExactTexts ==
  { <<"I","d"," ","J","o">>, <<"a","A","b","a","a">>, <<"J","o"," ","j","O">> }

ExactKeywordPool ==
  { <<"i","d">>, <<" ","j","O">>, <<"A">>, <<"a","a">> }

InitExact ==
  DetectCalled(ExactTexts,
               {Some(ks) : ks \in SeqsUpTo(ExactKeywordPool, MaxKeywords)},
               {"exact"},
               {DefaultFuzzyThreshold},
               {Some(<<"EMAIL_ADDRESS">>)})

SpecExact == InitExact /\ [][NextDetect]_vars

\* the strings that differ from s in letter case only
RECURSIVE CaseVariants(_)
CaseVariants(s) ==
  IF s = <<>> THEN {<<>>}
  ELSE {<<c>> \o t : c \in {LowerChar(Head(s)), UpperChar(Head(s))},
                      t \in CaseVariants(Tail(s))}

\* the keyword lists that differ from ks in letter case only
RECURSIVE ListCaseVariants(_)
ListCaseVariants(ks) ==
  IF ks = <<>> THEN {<<>>}
  ELSE {<<k>> \o ls : k \in CaseVariants(Head(ks)),
                       ls \in ListCaseVariants(Tail(ks))}

\* the set of (start, end) ranges of a list of spans
RangeSet(rs) == {<<rs[i].start, rs[i].end>> : i \in 1..Len(rs)}

\* C11: exact keyword matching is case-insensitive and deterministic:
\* changing the letter case of the text or of any keyword leaves the set of
\* (start, end) ranges unchanged, and the matcher run again on the same text
\* and keywords yields the same spans
C11_ExactCaseInsensitive ==
  (det_pc = "returned" /\ match_mode = "exact" /\ custom_keywords # NoneVal
     /\ custom_keywords[1] # <<>>) =>
    /\ ExactMatch(text, custom_keywords[1]) = keyword_results
    /\ \A t \in CaseVariants(text) :
         \A ks \in ListCaseVariants(custom_keywords[1]) :
           RangeSet(ExactMatch(t, ks)) = RangeSet(keyword_results)

\* C11 witness: a keyword was found at a place where the text's letter case
\* differs from the keyword's
C11_Witness ==
  /\ det_pc = "returned"
  /\ match_mode = "exact"
  /\ \E i \in 1..Len(keyword_results) :
       \E k \in 1..Len(custom_keywords[1]) :
         /\ Lower(keyword_results[i].text) = Strip(Lower(custom_keywords[1][k]))
         /\ keyword_results[i].text # Strip(custom_keywords[1][k])

(***************************************************************************)
(* Requests with one document whose page holds text: terms split across    *)
(* spans, misspelt, repeated, found or missed by the native search.        *)
(***************************************************************************)
SearchLines ==
  { << <<Span(<<"J","o">>, <<0, 0, 2, 1>>), Span(<<"h","n">>, <<2, 0, 4, 1>>)>> >>,
    << <<Span(<<"H","i"," ","J">>, <<0, 0, 4, 1>>),
         Span(<<"O","H","N"," ","x">>, <<4, 0, 9, 2>>),
         Span(<<"y","z">>, <<9, 0, 11, 1>>)>> >>,
    << <<Span(<<"j","h","o","n">>, <<0, 0, 4, 1>>),
         Span(<<"j","o"," ","h","n">>, <<5, 0, 10, 1>>)>>,
       <<Span(<<"x","j","o","h","n"," ","j","o","h","n">>, <<0, 2, 10, 3>>)>> >>,
    << <<Span(<<"j","o">>, <<0, 0, 2, 1>>), Span(<<"n","h">>, <<2, 0, 4, 1>>)>> >>,
    << <<Span(<<"j">>, <<0, 1, 1, 2>>), Span(<<"o","h">>, <<1, 0, 3, 2>>),
         Span(<<"n">>, <<3, 0, 4, 3>>)>> >> }

\* what page.search_for answers, per needle
SearchNatives ==
  { <<>>,
    [n \in {<<"J","o","h","n">>} |-> << <<20, 20, 24, 21>> >>],
    [n \in {<<"j","o","h","n">>} |-> << <<30, 30, 34, 31>> >>],
    [n \in {<<"J","O","H","N">>} |-> << <<40, 40, 44, 41>> >>],
    [n \in {<<"j","o","h","n">>, <<"J","O","H","N">>} |-> << <<50, 50, 54, 51>> >>] }

SearchRequests ==
  { Request("full_redact", <<"X">>, "exact", DefaultFuzzyThreshold),
    Request("replace", <<"X">>, "fuzzy", 0),
    Request("obfuscate", <<"X">>, "fuzzy", 60),
    Request("blur", <<"X">>, "fuzzy", 75),
    Request("replace", <<"X">>, "fuzzy", 85) }

SearchDocuments ==
  { WithPages(Document(TRUE, TRUE, TRUE, <<0>>),
              <<TextPageOf(lines, dict_ok, native)>>) :
      lines \in SearchLines, dict_ok \in BOOLEAN, native \in SearchNatives }
    \cup { WithPages(Document(TRUE, TRUE, TRUE, <<0, 0>>),
                      <<TextPageOf(<<>>, TRUE, <<>>),
                        TextPageOf(<< <<Span(<<"J","o">>, <<0, 0, 2, 1>>),
                                        Span(<<"h","n">>, <<2, 0, 4, 1>>)>> >>,
                                   TRUE, <<>>)>>) }
    \cup { Document(TRUE, TRUE, TRUE, <<1>>), Document(FALSE, TRUE, TRUE, <<0>>),
           Document(TRUE, FALSE, TRUE, <<0>>), Document(TRUE, TRUE, FALSE, <<0>>) }

InitSearch == RequestReceived(SearchRequests, {<<d>> : d \in SearchDocuments})

SpecSearch == InitSearch /\ [][NextPipeline]_vars

\* the occurrences of the term on a page, as <<line, offset>>: the places
\* where the text of the line holds the term, letter case apart
Occurrences(page, term) ==
  UNION {{<<l, p>> : p \in {q \in 0..Len(LineText(page.lines[l])) :
                           OccursAt(Lower(LineText(page.lines[l])),
                                    Lower(term), q)}} :
           l \in 1..Len(page.lines)}

\* the spans of the line that hold a character of offsets p .. p + n - 1
SpansHolding(spans, p, n) ==
  {k \in 1..Len(spans) :
     \E c \in p..(p + n - 1) :
       /\ Len(LineText(SubSeq(spans, 1, k - 1))) <= c
       /\ c < Len(LineText(SubSeq(spans, 1, k)))}

\* the smallest rectangle enclosing a set of boxes
Enclosing(boxes) ==
  <<SetMin({b[1] : b \in boxes}), SetMin({b[2] : b \in boxes}),
    SetMax({b[3] : b \in boxes}), SetMax({b[4] : b \in boxes})>>

\* the occurrences in reading order: by line, then by offset
RECURSIVE InOrder(_)
InOrder(occs) ==
  IF occs = {} THEN <<>>
  ELSE LET first == CHOOSE o \in occs :
                      \A q \in occs :
                        o[1] < q[1] \/ (o[1] = q[1] /\ o[2] <= q[2])
       IN  <<first>> \o InOrder(occs \ {first})

\* the searches of the text pass that looked for a term on a page whose
\* native searches all came back empty and whose layout could be read
NativeMissed(rec, k) ==
  LET page == input_files[rec.file].pages[rec.page]
  IN  /\ rec.op = "apply_redactions"
      /\ k \in 1..Len(rec.searches)
      /\ page.dict_ok
      /\ NativeSearch(page, pii_terms[k]) = <<>>
      /\ NativeSearch(page, Lower(pii_terms[k])) = <<>>
      /\ NativeSearch(page, Upper(pii_terms[k])) = <<>>

\* C12: where the native searches find nothing, a term split across two
\* adjacent spans of a line is resolved by the character-level strategy, and
\* every occurrence yields one region: the smallest rectangle enclosing the
\* boxes of the spans whose offset range intersects the match
C12_SplitTermResolved ==
  \A j \in 1..Len(red_log) : \A k \in 1..Len(pii_terms) :
    LET rec == red_log[j]
        page == input_files[rec.file].pages[rec.page]
        term == pii_terms[k]
        occs == InOrder(Occurrences(page, term))
    IN  (/\ rec.file = file_i
         /\ NativeMissed(rec, k)
         /\ \E o \in Occurrences(page, term) :
              \E s \in 1..(Len(page.lines[o[1]]) - 1) :
                SpansHolding(page.lines[o[1]], o[2], Len(term)) = {s, s + 1})
        => /\ rec.searches[k].consulted[Len(rec.searches[k].consulted)]
                = "character_level"
           /\ Len(rec.searches[k].areas) = Len(occs)
           /\ \A i \in 1..Len(occs) :
                rec.searches[k].areas[i] =
                  Enclosing({page.lines[occs[i][1]][s].bbox :
                               s \in SpansHolding(page.lines[occs[i][1]],
                                                  occs[i][2], Len(term))})

\* C12 witness: a term split across two spans, with a third span on the
\* line, was resolved to one region by the character-level strategy
C12_Witness ==
  \E j \in 1..Len(red_log) : \E k \in 1..Len(pii_terms) :
    /\ red_log[j].file = file_i
    /\ NativeMissed(red_log[j], k)
    /\ input_files[file_i].pages[red_log[j].page].lines # <<>>
    /\ Len(input_files[file_i].pages[red_log[j].page].lines[1]) = 3
    /\ red_log[j].searches[k].areas = << <<0, 0, 9, 2>> >>

\* the strategies in the order the cascade is said to try them
StrategyOrder ==
  <<"native", "native_lower", "native_upper", "character_level", "fuzzy">>

\* what one strategy yields on its own
StrategyYield(name, page, term, threshold) ==
  CASE name = "native" -> NativeSearch(page, term)
    [] name = "native_lower" -> NativeSearch(page, Lower(term))
    [] name = "native_upper" -> NativeSearch(page, Upper(term))
    [] name = "character_level" -> CharacterLevelSearch(page, term)
    [] name = "fuzzy" -> FuzzySearchInPage(page, term, threshold[1])

\* the number of strategies in play: the fuzzy fallback is one of them when
\* the fuzzy test of the module is on
StrategiesInPlay(threshold, available) ==
  IF FuzzyEnabled(threshold, available) THEN 5 ELSE 4

\* the positions in StrategyOrder of the strategies that yield a region
Yielding(page, term, threshold, available) ==
  {i \in 1..StrategiesInPlay(threshold, available) :
     StrategyYield(StrategyOrder[i], page, term, threshold) # <<>>}

\* C13: search_text_with_fallback tries native as given, native lowercased,
\* native uppercased, character-level, fuzzy, in this order, and returns the
\* result of the first that yields a region without consulting a later one;
\* when none yields a region it returns an empty list, and legal_redact_pdf
\* goes on with the remaining terms and pages
C13_CascadeStopsAtFirstYield ==
  /\ \A j \in 1..Len(red_log) :
       (red_log[j].op = "apply_redactions" /\ red_log[j].file = file_i) =>
         /\ Len(red_log[j].searches) = Len(pii_terms)
         /\ \A k \in 1..Len(pii_terms) :
              LET page == input_files[file_i].pages[red_log[j].page]
                  thr == PdfFuzzyThreshold(request[1])
                  ys == Yielding(page, pii_terms[k], thr, rapidfuzz_available)
                  got == red_log[j].searches[k]
              IN  IF ys = {}
                  THEN /\ got.areas = <<>>
                       /\ got.consulted =
                            SubSeq(StrategyOrder, 1,
                                   StrategiesInPlay(thr, rapidfuzz_available))
                  ELSE /\ got.areas = StrategyYield(StrategyOrder[SetMin(ys)],
                                                    page, pii_terms[k], thr)
                       /\ got.consulted = SubSeq(StrategyOrder, 1, SetMin(ys))
  /\ pipe_pc \in {"image", "save"} =>
       \A p \in 1..Len(input_files[file_i].pages) :
         \E j \in 1..Len(red_log) :
           /\ red_log[j].op = "apply_redactions"
           /\ red_log[j].file = file_i
           /\ red_log[j].page = p

\* C13 witness: on one page the first term went through all five strategies
\* without a region, and the next term was then found by the fourth
C13_Witness ==
  \E j \in 1..Len(red_log) :
    /\ red_log[j].op = "apply_redactions"
    /\ Len(red_log[j].searches) = 2
    /\ red_log[j].searches[1].areas = <<>>
    /\ Len(red_log[j].searches[1].consulted) = 5
    /\ red_log[j].searches[2].areas # <<>>
    /\ Len(red_log[j].searches[2].consulted) = 4

\* the images of a document as <<page, image>> pairs in the order of the
\* image pass, from page p on
RECURSIVE AllImages(_, _)
AllImages(images, p) ==
  IF p > Len(images) THEN <<>>
  ELSE [k \in 1..images[p] |-> <<p, k>>] \o AllImages(images, p + 1)

\* the image turns logged for the current document, as <<page, image>> pairs
RECURSIVE ImageTurnsOf(_, _)
ImageTurnsOf(log, file) ==
  IF log = <<>> THEN <<>>
  ELSE IF Head(log).op = "image" /\ Head(log).file = file
       THEN <<(<<Head(log).page, Head(log).image>>)>>
              \o ImageTurnsOf(Tail(log), file)
       ELSE ImageTurnsOf(Tail(log), file)

\* whether an image of the document failed in the image pass
SomeImageFailed(file) ==
  \E j \in 1..Len(red_log) :
    red_log[j].op = "image" /\ red_log[j].file = file /\ ~red_log[j].ok

\* C14: in the image pass of legal_redact_pdf a failure while processing one
\* embedded image does not abort the document: every remaining image of the
\* page and of the later pages is still processed, and the document is saved
C14_ImageFailureSkipped ==
  SomeImageFailed(file_i) =>
    LET images == input_files[file_i].images
        turns == ImageTurnsOf(red_log, file_i)
        all == AllImages(images, 1)
    IN  /\ Len(turns) <= Len(all)
        /\ turns = SubSeq(all, 1, Len(turns))
        /\ pipe_pc \in {"image", "save", "responded"}
        /\ pipe_pc = "image" =>
             /\ Len(turns) < Len(all)
             /\ <<page_i, image_i>> = all[Len(turns) + 1]
        /\ pipe_pc # "image" => turns = all
        /\ (pipe_pc = "responded" /\ input_files[file_i].saves) =>
             /\ response[1].status = 200
             /\ \E o \in 1..Len(response[1].files) :
                  response[1].files[o] = file_i

\* C14 witness: the first image of a page failed, the other image of the page
\* and the image of the next page were processed, and the document was saved
C14_Witness ==
  /\ pipe_pc = "responded"
  /\ response[1].status = 200
  /\ \E j \in 1..Len(red_log) :
       /\ red_log[j].op = "image" /\ ~red_log[j].ok
       /\ j + 2 <= Len(red_log)
       /\ red_log[j + 1].op = "image" /\ red_log[j + 1].ok
       /\ red_log[j + 1].page = red_log[j].page
       /\ red_log[j + 2].op = "image" /\ red_log[j + 2].ok
       /\ red_log[j + 2].page = red_log[j].page + 1

(***************************************************************************)
(* Requests with one document that opens, on at most one of whose images   *)
(* OCR raises.                                                             *)
(***************************************************************************)
ImagePairs(images) ==
  {pk \in (1..Len(images)) \X (1..MaxImages) : pk[2] <= images[pk[1]]}

ExtractDocuments ==
  UNION { { WithUnreadable(Document(TRUE, a, s, images), u) :
              a \in BOOLEAN, s \in BOOLEAN,
              u \in {{}} \cup {{pk} : pk \in ImagePairs(images)} } :
          images \in PageLayouts }

InitExtract ==
  RequestReceived({DefaultRequest}, { <<d>> : d \in ExtractDocuments })

SpecExtract == InitExtract /\ [][NextPipeline]_vars

\* C15: an OCR failure on one image during the text extraction of
\* print_contents, like a recognizer failure in _detect_with_presidio, counts
\* as no span for that unit: no exception propagates, and the rest of the
\* document is still processed, so a document that opens, can be analysed and
\* saved is answered with its redacted output
C15_OcrFailureIsZeroSpans ==
  (pipe_pc = "responded" /\ Sound(input_files[file_i])) =>
    /\ response[1].status = 200
    /\ \E o \in 1..Len(response[1].files) : response[1].files[o] = file_i

\* C16 as stated: the recognizer layer and the label-heuristic layer run on
\* every detect call, whatever the match mode, the keyword list and the
\* enabled-category list, an empty list included
C16_RecognizerAndLabelAlwaysRun ==
  det_pc = "returned" => {"presidio", "label"} \subseteq layers_run

\* C16 amended: the label-heuristic layer runs on every detect call; the
\* recognizer layer runs on every call but those given an empty
\* enabled-category list, whatever the match mode and the keyword list; the
\* keyword layer runs when the keyword list is present and not empty, with
\* the matcher the match mode selects
C16_RecognizerRunsUnlessListEmpty ==
  det_pc = "returned" =>
    /\ "label" \in layers_run
    /\ label_results = DetectLabelBasedNames(text)
    /\ "presidio" \in layers_run <=> enabled_entities # Some(<<>>)
    /\ "presidio" \notin layers_run => presidio_results = <<>>
    /\ "keywords" \in layers_run <=>
         (custom_keywords # NoneVal /\ custom_keywords[1] # <<>>)
    /\ "keywords" \in layers_run =>
         keyword_results =
           (CASE match_mode = "exact" -> ExactMatch(text, custom_keywords[1])
              [] match_mode = "fuzzy" ->
                   FuzzyMatch(text, custom_keywords[1], fuzzy_threshold)
              [] match_mode = "regex" -> RegexMatch(text, custom_keywords[1]))

\* C16 witness: a call with an empty enabled-category list returned spans of
\* the keyword layer and of the label layer without entering the recognizer
C16_Witness ==
  /\ det_pc = "returned"
  /\ enabled_entities = Some(<<>>)
  /\ layers_run = {"keywords", "label"}
  /\ keyword_results # <<>>
  /\ label_results # <<>>

(***************************************************************************)
(* Requests of every method over one document: a page whose text layer and *)
(* whose embedded image both show the term, or a failing document.         *)
(***************************************************************************)
MethodRequests ==
  { Request(m, t, "exact", DefaultFuzzyThreshold) :
      m \in {"full_redact", "obfuscate", "replace", "blur", "Replace"},
      t \in {<<>>, <<"X">>} }

MethodDocuments ==
  { WithOcrWords(
      WithPages(Document(o, a, s, images),
                [p \in 1..Len(images) |->
                   TextPageOf(<< <<Span(<<"J","o","h","n">>, <<0, 0, 4, 1>>)>> >>,
                              TRUE,
                              [n \in {<<"J","o","h","n">>} |->
                                 << <<0, 0, 4, 1>> >>])]),
      << <<"J","o","h","n">>, <<"x">> >>) :
      o \in BOOLEAN, a \in BOOLEAN, s \in BOOLEAN,
      images \in {<<1>>, <<0, 1>>} }

InitMethod == RequestReceived(MethodRequests, { <<d>> : d \in MethodDocuments })

SpecMethod == InitMethod /\ [][NextPipeline]_vars

\* the fill and the text shown over a region of the text layer: an empty
\* text argument shows nothing
TextLayerPaint(annot) == <<annot.fill, annot.text>>

\* the fill and the text shown over an OCR word region: no putText call
\* shows nothing
RasterPaint(drawing) ==
  <<drawing.fill, IF drawing.text = NoneVal THEN <<>> ELSE drawing.text[1]>>

\* the fill and text the method stands for
MethodPaint(method, replace_text) ==
  CASE method = "full_redact" -> <<"white", <<>> >>
    [] method = "obfuscate" -> <<"black", <<>> >>
    [] method = "replace" -> <<"white", replace_text>>

\* C17: the redaction method means the same in the text layer and in the
\* raster layer: full_redact covers the region with background and no text,
\* obfuscate draws a black mask with no text, replace draws a mask holding
\* the replacement text, and for every method the (fill, text) pair of a
\* text-layer region equals that of a matched OCR word region
C17_MethodUniform ==
  \A i, j \in 1..Len(red_log) :
    (red_log[i].op = "apply_redactions" /\ red_log[j].op = "image") =>
      \A a \in 1..Len(red_log[i].annots), d \in 1..Len(red_log[j].annots) :
        /\ TextLayerPaint(red_log[i].annots[a]) = RasterPaint(red_log[j].annots[d])
        /\ request[1].method \in {"full_redact", "obfuscate", "replace"} =>
             TextLayerPaint(red_log[i].annots[a]) =
               MethodPaint(request[1].method, request[1].replace_text)

\* C17 witness: under the method replace a region of the text layer and a
\* matched OCR word of an image were both painted
C17_Witness ==
  /\ request # NoneVal
  /\ request[1].method = "replace"
  /\ request[1].replace_text # <<>>
  /\ \E i, j \in 1..Len(red_log) :
       /\ red_log[i].op = "apply_redactions" /\ red_log[i].annots # <<>>
       /\ red_log[j].op = "image" /\ red_log[j].annots # <<>>

\* whether candidate j comes before candidate i in a stable sort of cs by
\* start ascending, then confidence descending
Precedes(cs, j, i) ==
  \/ cs[j].start < cs[i].start
  \/ /\ cs[j].start = cs[i].start
     /\ \/ ScoreGt(cs[j].score, cs[i].score)
        \/ (ScoreEq(cs[j].score, cs[i].score) /\ j < i)

\* cs stably sorted: each candidate at the place its predecessors leave it
StablySorted(cs) ==
  [p \in 1..Len(cs) |->
     cs[CHOOSE i \in 1..Len(cs) :
          Cardinality({j \in 1..Len(cs) : Precedes(cs, j, i)}) = p - 1]]

\* the end of the span most recently accepted before place p of the sorted
\* list, -1 when there is none
RECURSIVE Cursor(_, _)
Cursor(sorted, p) ==
  IF p = 1 THEN -1
  ELSE LET before == Cursor(sorted, p - 1)
       IN  IF sorted[p - 1].start >= before THEN sorted[p - 1].end ELSE before

\* the candidates accepted, in sorted order
Accepted(sorted) ==
  Flatten([p \in 1..Len(sorted) |->
             IF sorted[p].start >= Cursor(sorted, p)
             THEN <<sorted[p]>> ELSE <<>>])

\* the candidate with the given start that has the highest confidence and,
\* among those, comes first in the input
BestAt(cs, start) ==
  cs[CHOOSE i \in 1..Len(cs) :
       /\ cs[i].start = start
       /\ \A j \in 1..Len(cs) :
            (j # i /\ cs[j].start = start) => Precedes(cs, i, j)]

QualifyingRatio(word, keyword, threshold) ==
  LET kw == Strip(Lower(keyword))
      whole == Ratio(Lower(word), kw)
      partial == PartialRatio(kw, Lower(word))
  IN  IF kw = <<>> THEN NoneVal
      ELSE IF whole.num >= threshold * whole.den THEN Some(whole)
      ELSE IF Len(keyword) > 4 /\ partial.num >= threshold * partial.den
      THEN Some(partial)
      ELSE NoneVal

\* the places in the list of the keywords that qualify for the word
Qualifying(word, keywords, threshold) ==
  {k \in 1..Len(keywords) :
     QualifyingRatio(word, keywords[k], threshold) # NoneVal}

\* the spans of the keyword layer over the token tok
SpansOver(spans, tok) ==
  SelectSeq(spans, LAMBDA r : r.start = tok[1] /\ r.end = tok[2])

\* C19: in fuzzy mode every word token of the text yields at most one span,
\* produced by the first keyword in list order that qualifies (whole-token
\* ratio >= threshold, or partial ratio >= threshold for a keyword longer
\* than 4 characters), with confidence that keyword's qualifying ratio / 100
\* even when a later keyword would score higher
C19_FirstQualifyingKeyword ==
  (det_pc = "returned" /\ match_mode = "fuzzy" /\ custom_keywords # NoneVal) =>
    LET toks == WordTokens(text)
    IN  /\ \A i \in 1..Len(toks) :
             LET word == Slice(text, toks[i][1], toks[i][2])
                 qs == Qualifying(word, custom_keywords[1], fuzzy_threshold)
                 over == SpansOver(keyword_results, toks[i])
             IN  /\ Len(over) <= 1
                 /\ Len(over) = 1 <=> qs # {}
                 /\ qs # {} =>
                      /\ over[1].text = word
                      /\ ScoreEq(over[1].score,
                                 Percent(QualifyingRatio(
                                           word, custom_keywords[1][SetMin(qs)],
                                           fuzzy_threshold)[1]))
        /\ \A k \in 1..Len(keyword_results) :
             \E i \in 1..Len(toks) :
               <<keyword_results[k].start, keyword_results[k].end>> = toks[i]

\* C19 witness: a token took its span and confidence from the first keyword
\* that qualified although the next keyword scores higher for it
C19_Witness ==
  /\ det_pc = "returned"
  /\ match_mode = "fuzzy"
  /\ custom_keywords # NoneVal
  /\ Len(custom_keywords[1]) = 2
  /\ \E k \in 1..Len(keyword_results) :
       LET word == keyword_results[k].text
           first == QualifyingRatio(word, custom_keywords[1][1], fuzzy_threshold)
           second == QualifyingRatio(word, custom_keywords[1][2], fuzzy_threshold)
       IN  /\ first # NoneVal
           /\ second # NoneVal
           /\ ScoreGt(second[1], first[1])
           /\ ScoreEq(keyword_results[k].score, Percent(first[1]))

\* C20: the value the label heuristic captures ends at the first end of
\* line, newline or run of two or more spaces after its first character: no
\* span of _detect_label_based_names has a text holding a newline or two
\* consecutive spaces
C20_ValueStopsAtTerminator ==
  det_pc = "returned" =>
    \A k \in 1..Len(label_results) :
      /\ ~Contains(label_results[k].text, <<"\n">>)
      /\ ~Contains(label_results[k].text, <<" ", " ">>)

\* whether the given strategy was consulted in the search
Consulted(search, name) ==
  \E s \in 1..Len(search.consulted) : search.consulted[s] = name

\* C21: the fuzzy strategy of position resolution is enabled exactly when a
\* similarity threshold was supplied: for every supplied threshold in 0..100,
\* 0 included, the fuzzy fallback of search_text_with_fallback runs when the
\* strategies before it find nothing, and it never runs when no threshold is
\* supplied
C21_FuzzyRunsIffThresholdSupplied ==
  \A j \in 1..Len(red_log) :
    red_log[j].op = "apply_redactions" =>
      \A k \in 1..Len(red_log[j].searches) :
        LET search == red_log[j].searches[k]
            supplied == PdfFuzzyThreshold(request[1]) # NoneVal
        IN  /\ (supplied /\ ~Consulted(search, "fuzzy")) => search.areas # <<>>
            /\ ~supplied => ~Consulted(search, "fuzzy")

\* whether the deny-list filter drops a span: its text, lowercased and
\* trimmed, is on the deny list, or holds "name" in at most two words
Denied(r) ==
  LET t == Strip(Lower(r.text))
  IN  \/ t \in DENY_LIST
      \/ (Contains(t, <<"n","a","m","e">>) /\ WordCount(t) <= 2)

\* whether sub is got from seq by leaving elements out
RECURSIVE IsSubList(_, _)
IsSubList(sub, seq) ==
  IF sub = <<>> THEN TRUE
  ELSE IF seq = <<>> THEN FALSE
  ELSE IF Head(sub) = Head(seq) THEN IsSubList(Tail(sub), Tail(seq))
  ELSE IsSubList(sub, Tail(seq))

\* C22: in detect the deny-list filter is applied last, after overlap
\* resolution: the returned list equals filter(resolve(candidates)), it is a
\* sub-list of resolve(candidates) in the same order, and no candidate that
\* overlap resolution discarded is returned
C22_FilterAfterResolution ==
  det_pc = "returned" =>
    LET resolved == Accepted(StablySorted(candidates))
    IN  /\ results = SelectSeq(resolved, LAMBDA r : ~Denied(r))
        /\ IsSubList(results, resolved)
        /\ \A c \in 1..Len(candidates) :
             (\A k \in 1..Len(resolved) : resolved[k] # candidates[c]) =>
               \A k \in 1..Len(results) : results[k] # candidates[c]

\* C22 witness: a deny-listed span won an overlap against a span the filter
\* would have kept, and neither is returned, while another span is
C22_Witness ==
  /\ det_pc = "returned"
  /\ results # <<>>
  /\ \E i, j \in 1..Len(candidates) :
       /\ Overlap(candidates[i], candidates[j])
       /\ Denied(candidates[i])
       /\ ~Denied(candidates[j])
       /\ \E k \in 1..Len(deduplicated) : deduplicated[k] = candidates[i]
       /\ \A k \in 1..Len(deduplicated) : deduplicated[k] # candidates[j]
       /\ \A k \in 1..Len(results) :
            results[k] # candidates[i] /\ results[k] # candidates[j]

(***************************************************************************)
(* Sequences of calls: analyses with every kind of enabled-category list,  *)
(* and calls of the accessor functions whose results the caller then       *)
(* empties.                                                                *)
(***************************************************************************)
ConfigEntityArgs ==
  { NoneVal, Some(<<>>), Some(<<"PERSON">>), Some(<<"PERSON", "AADHAAR_IN">>),
    Some(<<"PAN_IN", "EMAIL_ADDRESS">>) }

InitConfig ==
  DetectCalled({<<"I","d"," ","J","o">>}, {NoneVal}, {"exact"},
               {DefaultFuzzyThreshold}, ConfigEntityArgs)

\* analyze_text_from_string is called again: the caller hands in a list of
\* its own, a detector is created with it and detect is called with it
AnalyzeAgain ==
  /\ det_pc = "returned"
  /\ enabled_entities' \in ConfigEntityArgs
  /\ heap' = InitHeap([heap EXCEPT !["caller_list"] =
                         IF enabled_entities' = NoneVal THEN <<>>
                         ELSE enabled_entities'[1]],
                      enabled_entities')
  /\ self_enabled_entities' = SelfEnabledEntities(enabled_entities')
  /\ analyzer_answer' \in AnalyzerAnswers(text, enabled_entities')
  /\ presidio_results' = <<>>
  /\ keyword_results' = <<>>
  /\ label_results' = <<>>
  /\ layers_run' = {}
  /\ candidates' = <<>>
  /\ deduplicated' = <<>>
  /\ results' = <<>>
  /\ det_pc' = "called"
  /\ UNCHANGED <<text, custom_keywords, match_mode, fuzzy_threshold,
                 accessor_result>>
  /\ UNCHANGED <<imgVars, pipeVars>>

\* an accessor returns source.copy(): a new object holding what source holds
AccessorReturnsCopy(source, copy) ==
  /\ heap' = [heap EXCEPT ![copy] = heap[source]]
  /\ accessor_result' = Some(copy)
  /\ UNCHANGED <<text, custom_keywords, match_mode, fuzzy_threshold,
                 enabled_entities, analyzer_answer, presidio_results,
                 keyword_results, label_results, layers_run, candidates,
                 deduplicated, results, self_enabled_entities, det_pc>>
  /\ UNCHANGED <<imgVars, pipeVars>>

\* get_available_entity_types
GetAvailableEntityTypes ==
  AccessorReturnsCopy("ENTITY_TYPE_LABELS", "labels_copy")

\* get_default_entities
GetDefaultEntities ==
  AccessorReturnsCopy("DEFAULT_ENTITY_TYPES", "defaults_copy")

\* the caller empties the object an accessor returned to it
CallerClearsResult ==
  /\ accessor_result # NoneVal
  /\ heap[accessor_result[1]] \in {DEFAULT_ENTITY_TYPES, ENTITY_TYPE_LABELS}
  /\ heap' = [heap EXCEPT ![accessor_result[1]] = <<>>]
  /\ UNCHANGED <<text, custom_keywords, match_mode, fuzzy_threshold,
                 enabled_entities, analyzer_answer, presidio_results,
                 keyword_results, label_results, layers_run, candidates,
                 deduplicated, results, self_enabled_entities,
                 accessor_result, det_pc>>
  /\ UNCHANGED <<imgVars, pipeVars>>

NextConfig ==
  \/ Detect
  \/ AnalyzeAgain
  \/ GetAvailableEntityTypes
  \/ GetDefaultEntities
  \/ CallerClearsResult

SpecConfig == InitConfig /\ [][NextConfig]_vars

\* C23: no detection operation changes configuration: after any sequence of
\* calls the deny list, the default category list and the category label
\* table hold what they held at import, the enabled-category list the
\* caller passed holds what the caller put in it, the locale categories are
\* in a copy, and the accessor functions return copies
C23_ConfigurationUnchanged ==
  /\ heap["DENY_LIST"] = DENY_LIST
  /\ heap["DEFAULT_ENTITY_TYPES"] = DEFAULT_ENTITY_TYPES
  /\ heap["ENTITY_TYPE_LABELS"] = ENTITY_TYPE_LABELS
  /\ enabled_entities # NoneVal => heap["caller_list"] = enabled_entities[1]
  /\ accessor_result # NoneVal => accessor_result[1] \notin ModuleObjects
  /\ ("presidio" \in layers_run) =>
       /\ \E i \in 1..Len(heap["all_entities"]) :
            heap["all_entities"][i] = "AADHAAR_IN"
       /\ \E i \in 1..Len(heap["all_entities"]) :
            heap["all_entities"][i] = "PAN_IN"

\* C23 witness: detect ran the recognizer with the caller's list [PERSON],
\* the analyzer was handed the list with both locale categories appended,
\* and the caller had emptied the label table an accessor returned
C23_Witness ==
  /\ det_pc = "returned"
  /\ enabled_entities = Some(<<"PERSON">>)
  /\ heap["all_entities"] = <<"PERSON", "AADHAAR_IN", "PAN_IN">>
  /\ heap["caller_list"] = <<"PERSON">>
  /\ accessor_result = Some("labels_copy")
  /\ heap["labels_copy"] = <<>>

\* C24: the overlap resolver is idempotent: resolve(resolve(S)) equals
\* resolve(S), same spans in the same order, so the second of the two
\* consecutive deduplication calls of detect never changes the result
C24_ResolverIdempotent ==
  det_pc = "returned" =>
    LET once == DeduplicateResults(candidates)
    IN  /\ DeduplicateResults(once) = once
        /\ deduplicated = once

\* C24 witness: the first call reordered the candidates and dropped some of
\* them, and the second call was given at least two spans
C24_Witness ==
  /\ det_pc = "returned"
  /\ StablySorted(candidates) # candidates
  /\ Len(DeduplicateResults(candidates)) < Len(candidates)
  /\ Len(DeduplicateResults(candidates)) >= 2
  /\ deduplicated = DeduplicateResults(candidates)

\* C25: a method value other than "replace" and "obfuscate", an unknown or
\* misspelled one included, is treated as full redaction in the text layer
\* and in the raster layer: the region is covered with no mask text, and no
\* error is raised
C25_OtherMethodIsFullRedaction ==
  (request # NoneVal /\ request[1].method \notin {"replace", "obfuscate"}) =>
    /\ \A j \in 1..Len(red_log) :
         /\ red_log[j].op = "apply_redactions" =>
              \A a \in 1..Len(red_log[j].annots) :
                /\ red_log[j].annots[a].fill = "white"
                /\ red_log[j].annots[a].text = <<>>
         /\ red_log[j].op = "image" =>
              \A d \in 1..Len(red_log[j].annots) :
                /\ red_log[j].annots[d].fill = "white"
                /\ red_log[j].annots[d].text = NoneVal
    /\ (pipe_pc = "responded" /\ Sound(input_files[file_i])) =>
         response[1].status = 200

\* C25 witness: a request with the method "Replace", which is not a method
\* name, was answered with the output after a region of the text layer and
\* an OCR word of an image were covered
C25_Witness ==
  /\ request # NoneVal
  /\ request[1].method = "Replace"
  /\ pipe_pc = "responded"
  /\ response[1].status = 200
  /\ \E i, j \in 1..Len(red_log) :
       /\ red_log[i].op = "apply_redactions" /\ red_log[i].annots # <<>>
       /\ red_log[j].op = "image" /\ red_log[j].annots # <<>>

=============================================================================
